---------------------------- MODULE Spec2Model ----------------------------
(***************************************************************************)
(* Model of the performance analysis of playwright-har-reporter:           *)
(* PerformanceMonitor (src/helpers/performance-monitor.ts), which reads    *)
(* the HAR file recorded for a browser context, builds a                   *)
(* PerformanceReport from its entries and checks it against the thresholds *)
(* set, and ReportUtils.aggregateReports, which sums reports.              *)
(*                                                                         *)
(* JavaScript values are represented as follows.                           *)
(*   - an object is a record (a function on field names); a property that  *)
(*     is absent (undefined) is a field name outside the DOMAIN;           *)
(*   - an array is a sequence;                                             *)
(*   - a number that the code obtains without division is an integer;      *)
(*     times are whole milliseconds and sizes whole bytes, so sums are     *)
(*     exact (the rounding of IEEE-754 doubles is not represented);        *)
(*   - a number that the code obtains by `/` is an exact fraction          *)
(*     [num, den] in lowest terms (operator Quot);                         *)
(*   - a string that the code searches (a URL, a MIME type) is the         *)
(*     sequence of the pieces it is the concatenation of, the pieces       *)
(*     being chosen so that no searched substring spans two of them.       *)
(***************************************************************************)
EXTENDS Integers, Sequences, FiniteSets, TLC

(***************************************************************************)
(* Bounds of the model.                                                    *)
(***************************************************************************)
\* longest array handed to calculateMedian / calculatePercentile
MaxLen == 4
\* largest number in such an array
MaxValue == 3
\* most exchanges recorded into one HAR file
MaxEntries == 3

\* most exchanges recorded when the entries differ in URL and MIME type
MaxCategoryEntries == 2

\* most calls of generateReport on one monitor
MaxCalls == 2

\* most exchanges recorded when the entries differ in method and URL
MaxApiEntries == 3

\* most exchanges recorded when thresholds are set
MaxThresholdEntries == 2

\* most reports collected for aggregateReports
MaxReports == 3

\* most single exchanges recorded before a page load
MaxRankingEntries == 3

\* most metric operations and page events on one monitor
MaxMetricOps == 2

\* most exchanges recorded while metrics are collected
MaxMetricEntries == 1

\* most calls of createPage on one monitor
MaxPageCalls == 3

\* most exchanges recorded while testFn runs under runWithMonitoring
MaxRunEntries == 2

\* most report files in test-results/reports
MaxReportFiles == 2

\* most tests the reporter sees end
MaxTests == 2

VARIABLES
    values,      \* the caller's array passed to calculateMedian/calculatePercentile
    statCall,    \* the last call of one of the two: function, argument, result
    context,     \* this.context: "none", "open" (recording) or "closed"
    recorded,    \* the exchanges the browser context has recorded so far
    harFile,     \* the file at this.harPath
    reportCall,  \* the last call of generateReport: the file read, the return, the log
    reportFiles, \* the reports written with fs.writeFileSync, oldest first
    console,     \* what the monitor logged, oldest first
    thresholds,  \* this.thresholds
    calls,       \* the number of calls of generateReport so far
    config,      \* this.config.customMetrics, as the constructor stored it
    customMetrics, \* this.customMetrics
    added,       \* for each key the caller passed to addMetric, the last value passed
    pageEvent,   \* the last page event handled: its name and whether the handler threw
    metricOps,   \* the number of metric operations and page events so far
    pageCalls,   \* the calls of createPage, oldest first: where each one stands
    newContexts, \* the number of calls of browser.newContext so far
    thisContext, \* which context this.context refers to: 0 for none, else the
                 \* number of the browser.newContext call that returned it
    startTimes,  \* the number of assignments to this.startTime so far
    run,         \* the call of PerformanceMonitor.runWithMonitoring
    reportDir,   \* the files in test-results/reports, oldest first
    performanceReports, \* PerformanceReporter.performanceReports, in insertion order
    aggregateReport,    \* PerformanceReporter.aggregateReport
    testCall,    \* the last call of onTestEnd: the test, the files it saw, what it found
    endCall,     \* the call of onEnd: what it aggregated and wrote
    reports,     \* the array a caller holds to pass to ReportUtils.aggregateReports
    aggregateCall \* the last call of aggregateReports: argument and result

statVars == <<values, statCall>>
metricVars == <<config, customMetrics, added, pageEvent, metricOps>>
pageVars == <<pageCalls, newContexts, thisContext, startTimes>>
monitorVars == <<context, recorded, harFile, reportCall, reportFiles, console,
                 thresholds, calls, metricVars, pageVars, run>>
reporterVars == <<reportDir, performanceReports, aggregateReport, testCall, endCall>>
aggregateVars == <<reports, aggregateCall>>
vars == <<values, statCall, context, recorded, harFile, reportCall, reportFiles, console,
          thresholds, calls, config, customMetrics, added, pageEvent, metricOps,
          pageCalls, newContexts, thisContext, startTimes, run,
          reportDir, performanceReports, aggregateReport, testCall, endCall,
          reports, aggregateCall>>

(***************************************************************************)
(* Numbers.                                                                *)
(***************************************************************************)
Range(s) == {s[i] : i \in DOMAIN s}

Max(a, b) == IF a >= b THEN a ELSE b

RECURSIVE Gcd(_, _)
Gcd(a, b) == IF b = 0 THEN a ELSE Gcd(b, a % b)

\* JavaScript a / b for integers a >= 0, b > 0: the exact quotient.
Quot(a, b) ==
    LET g == Gcd(a, b)
    IN  [num |-> a \div g, den |-> b \div g]

\* A number that was not divided, as a fraction.
Num(a) == [num |-> a, den |-> 1]

\* Math.floor(a / b), Math.ceil(a / b) for a >= 0, b > 0.
Floor(a, b) == a \div b
Ceil(a, b) == (a + b - 1) \div b

(***************************************************************************)
(* [...values].sort((a, b) => a - b): a sorted copy, ascending.            *)
(***************************************************************************)
RECURSIVE InsertAsc(_, _)
InsertAsc(s, x) ==
    IF s = <<>> THEN <<x>>
    ELSE IF x < Head(s) THEN <<x>> \o s
    ELSE <<Head(s)>> \o InsertAsc(Tail(s), x)

RECURSIVE SortAsc(_)
SortAsc(s) ==
    IF s = <<>> THEN <<>>
    ELSE InsertAsc(SortAsc(SubSeq(s, 1, Len(s) - 1)), s[Len(s)])

(***************************************************************************)
(* calculateMedian(values).  The result is a record: ret is the returned   *)
(* number and values is the caller's array as the call leaves it (the code *)
(* sorts a copy, [...values], so the array is left as it was).             *)
(* Indices are 0-based in the code and 1-based here.                       *)
(***************************************************************************)
calculateMedianUnsorted(vals) ==
    IF Len(vals) = 0 THEN [ret |-> Num(0), values |-> vals]
    ELSE LET mid == Floor(Len(vals), 2)
         IN  [ret |-> IF Len(vals) % 2 # 0
                      THEN Num(vals[mid + 1])
                      ELSE Quot(vals[mid] + vals[mid + 1], 2),
              values |-> vals]

calculateMedianInPlace(vals) ==
    IF Len(vals) = 0 THEN [ret |-> Num(0), values |-> vals]
    ELSE LET sorted == SortAsc(vals)
             mid == Floor(Len(sorted), 2)
         IN  [ret |-> IF Len(sorted) % 2 # 0
                      THEN Num(sorted[mid + 1])
                      ELSE Quot(sorted[mid] + sorted[mid + 1], 2),
              values |-> sorted]

calculateMedian(vals) ==
    IF Len(vals) = 0 THEN [ret |-> Num(0), values |-> vals]
    ELSE LET sorted == SortAsc(vals)
             mid == Floor(Len(sorted), 2)
         IN  [ret |-> IF Len(sorted) % 2 # 0
                      THEN Num(sorted[mid + 1])
                      ELSE Quot(sorted[mid] + sorted[mid + 1], 2),
              values |-> vals]

(***************************************************************************)
(* calculatePercentile(values, percentile).                                *)
(*   index = Math.ceil((percentile / 100) * sorted.length) - 1             *)
(*   return sorted[Math.max(0, index)]                                     *)
(***************************************************************************)
calculatePercentileUnsorted(vals, percentile) ==
    IF Len(vals) = 0 THEN 0
    ELSE LET index == Ceil(percentile * Len(vals), 100) - 1
         IN  vals[Max(0, index) + 1]

calculatePercentileFloor(vals, percentile) ==
    IF Len(vals) = 0 THEN 0
    ELSE LET sorted == SortAsc(vals)
             index == Floor(percentile * Len(sorted), 100) - 1
         IN  sorted[Max(0, index) + 1]

calculatePercentile(vals, percentile) ==
    IF Len(vals) = 0 THEN 0
    ELSE LET sorted == SortAsc(vals)
             index == Ceil(percentile * Len(sorted), 100) - 1
         IN  sorted[Max(0, index) + 1]

(***************************************************************************)
(* Objects and strings.                                                    *)
(***************************************************************************)
\* o.f is defined
Has(o, f) == f \in DOMAIN o

\* s.includes(piece)
Includes(s, piece) == \E i \in DOMAIN s : s[i] = piece

\* the `i` flag of the extension patterns
Lower(piece) == IF piece = ".PNG" THEN ".png" ELSE piece

\* s.match(/\.(e1|e2|...)$/i): the string ends with one of the extensions
MatchesExtension(s, exts) == s # <<>> /\ Lower(s[Len(s)]) \in exts

\* entry.time || 0
timeOf(e) == IF Has(e, "time") THEN e.time ELSE 0

\* entry.response?.bodySize || 0
bodySizeOf(e) ==
    IF Has(e, "response") /\ Has(e.response, "bodySize") THEN e.response.bodySize ELSE 0

\* entry.response?.status >= 400
statusFailedGt(e) ==
    Has(e, "response") /\ Has(e.response, "status") /\ e.response.status > 400

statusFailed(e) ==
    Has(e, "response") /\ Has(e.response, "status") /\ e.response.status >= 400

\* entry.request?.url || ''
urlOf(e) ==
    IF Has(e, "request") /\ Has(e.request, "url") THEN e.request.url ELSE <<>>

\* entry.response?.content?.mimeType || ''
mimeTypeOf(e) ==
    IF /\ Has(e, "response")
       /\ Has(e.response, "content")
       /\ Has(e.response.content, "mimeType")
    THEN e.response.content.mimeType
    ELSE <<>>

\* array.reduce((sum, x) => sum + x, 0), from the first element to the last
RECURSIVE ReduceSum(_)
ReduceSum(s) ==
    IF s = <<>> THEN 0
    ELSE ReduceSum(SubSeq(s, 1, Len(s) - 1)) + s[Len(s)]

(***************************************************************************)
(* calculateSummary(entries)                                               *)
(***************************************************************************)
calculateSummary(entries) ==
    IF Len(entries) = 0
    THEN [totalRequests |-> 0, totalTime |-> 0, totalSize |-> 0,
          failedRequests |-> 0, averageResponseTime |-> Num(0),
          medianResponseTime |-> Num(0), percentile95 |-> 0, percentile99 |-> 0]
    ELSE LET times == [i \in DOMAIN entries |-> timeOf(entries[i])]
             totalTime == ReduceSum(times)
         IN  [totalRequests |-> Len(entries),
              totalTime |-> totalTime,
              totalSize |-> ReduceSum([i \in DOMAIN entries |-> bodySizeOf(entries[i])]),
              failedRequests |-> Cardinality({i \in DOMAIN entries : statusFailed(entries[i])}),
              averageResponseTime |-> IF Len(entries) > 0
                                      THEN Quot(totalTime, Len(entries))
                                      ELSE Num(0),
              medianResponseTime |-> calculateMedian(times).ret,
              percentile95 |-> calculatePercentile(times, 95),
              percentile99 |-> calculatePercentile(times, 99)]

(***************************************************************************)
(* categorizeRequests(entries)                                             *)
(***************************************************************************)
Categories == {"api", "javascript", "css", "images", "fonts", "html", "other"}

JavascriptExtensions == {".js", ".mjs", ".jsx", ".ts", ".tsx"}
CssExtensions == {".css", ".scss", ".sass", ".less"}
ImageExtensions == {".png", ".jpg", ".jpeg", ".gif", ".svg", ".webp", ".ico", ".bmp"}
FontExtensions == {".woff", ".woff2", ".ttf", ".eot", ".otf"}
HtmlExtensions == {".html", ".htm"}

\* the if / else-if chain of the forEach body
categoryOfExtensionFirst(url, mimeType) ==
    IF MatchesExtension(url, JavascriptExtensions) \/ Includes(mimeType, "javascript")
    THEN "javascript"
    ELSE IF MatchesExtension(url, CssExtensions) \/ Includes(mimeType, "css")
    THEN "css"
    ELSE IF \/ Includes(url, "/api/") \/ Includes(url, "graphql")
            \/ Includes(url, "/rest/") \/ Includes(mimeType, "json")
    THEN "api"
    ELSE IF MatchesExtension(url, ImageExtensions) \/ Includes(mimeType, "image")
    THEN "images"
    ELSE IF MatchesExtension(url, FontExtensions) \/ Includes(mimeType, "font")
    THEN "fonts"
    ELSE IF MatchesExtension(url, HtmlExtensions) \/ Includes(mimeType, "html")
    THEN "html"
    ELSE "other"

categoryOf(url, mimeType) ==
    IF \/ Includes(url, "/api/") \/ Includes(url, "graphql")
       \/ Includes(url, "/rest/") \/ Includes(mimeType, "json")
    THEN "api"
    ELSE IF MatchesExtension(url, JavascriptExtensions) \/ Includes(mimeType, "javascript")
    THEN "javascript"
    ELSE IF MatchesExtension(url, CssExtensions) \/ Includes(mimeType, "css")
    THEN "css"
    ELSE IF MatchesExtension(url, ImageExtensions) \/ Includes(mimeType, "image")
    THEN "images"
    ELSE IF MatchesExtension(url, FontExtensions) \/ Includes(mimeType, "font")
    THEN "fonts"
    ELSE IF MatchesExtension(url, HtmlExtensions) \/ Includes(mimeType, "html")
    THEN "html"
    ELSE "other"

\* categories[category].count++ and the two += of the forEach body
tallySkipsOther(categories, entry) ==
    LET category == categoryOf(urlOf(entry), mimeTypeOf(entry))
        c == categories[category]
    IN  IF category = "other" THEN categories
        ELSE [categories EXCEPT ![category] =
                 [count |-> c.count + 1,
                  totalTime |-> c.totalTime + timeOf(entry),
                  totalSize |-> c.totalSize + bodySizeOf(entry)]]

tally(categories, entry) ==
    LET category == categoryOf(urlOf(entry), mimeTypeOf(entry))
        c == categories[category]
    IN  [categories EXCEPT ![category] =
            [count |-> c.count + 1,
             totalTime |-> c.totalTime + timeOf(entry),
             totalSize |-> c.totalSize + bodySizeOf(entry)]]

\* entries.forEach(entry => ...), from the first entry to the last
RECURSIVE tallyAll(_, _)
tallyAll(categories, entries) ==
    IF entries = <<>> THEN categories
    ELSE tallyAll(tally(categories, Head(entries)), Tail(entries))

categorizeRequests(entries) ==
    LET zero == [c \in Categories |-> [count |-> 0, totalTime |-> 0, totalSize |-> 0]]
        categories == tallyAll(zero, entries)
    IN  IF Len(entries) = 0 THEN zero
        ELSE [c \in Categories |->
                 IF categories[c].count > 0
                 THEN [count |-> categories[c].count,
                       totalTime |-> categories[c].totalTime,
                       totalSize |-> categories[c].totalSize,
                       averageTime |-> Quot(categories[c].totalTime, categories[c].count)]
                 ELSE categories[c]]

(***************************************************************************)
(* getApiMetrics(entries).  A URL is the sequence of its pieces: the       *)
(* origin first when it is absolute, then the pieces of the path, then the *)
(* query string and the fragment.  new URL(s) throws a TypeError unless s  *)
(* is absolute; url.pathname is the path, "/" when it is empty.            *)
(***************************************************************************)
Origin == "https://host"

\* stands for Infinity: a number above every time of the model
Infinity == 1000000

Min(a, b) == IF a <= b THEN a ELSE b

\* the filter of getApiMetrics
isApiCall(e) ==
    \/ Includes(urlOf(e), "/api/")
    \/ Includes(urlOf(e), "graphql")
    \/ Includes(urlOf(e), "/rest/")
    \/ Includes(urlOf(e), "/SXMain/")
    \/ Includes(urlOf(e), "/moduleservices/")
    \/ Includes(mimeTypeOf(e), "json")

\* new URL(call.request.url) returns: call.request is an object and its url
\* is absolute
urlParses(call) ==
    /\ Has(call, "request")
    /\ Has(call.request, "url")
    /\ call.request.url # <<>>
    /\ Head(call.request.url) = Origin

\* the piece opens the query string or the fragment of a URL
IsSearchOrHash(piece) == piece \in {"?v=1", "?v=2", "#top"}

RECURSIVE beforeSearch(_)
beforeSearch(pieces) ==
    IF pieces = <<>> \/ IsSearchOrHash(Head(pieces)) THEN <<>>
    ELSE <<Head(pieces)>> \o beforeSearch(Tail(pieces))

\* new URL(s).pathname
pathnameOf(s) ==
    LET path == beforeSearch(Tail(s))
    IN  IF path = <<>> THEN <<"/">> ELSE path

\* `${call.request.method} ${url.pathname}`
endpointKeyWithSearch(call) ==
    <<IF Has(call.request, "method") THEN call.request.method ELSE "undefined", " ">>
        \o Tail(call.request.url)

endpointKey(call) ==
    <<IF Has(call.request, "method") THEN call.request.method ELSE "undefined", " ">>
        \o pathnameOf(call.request.url)

\* the object a new key gets
newEndpointMinZero ==
    [count |-> 0, totalTime |-> 0, averageTime |-> Num(0), minTime |-> 0, maxTime |-> 0]

newEndpoint ==
    [count |-> 0, totalTime |-> 0, averageTime |-> Num(0), minTime |-> Infinity, maxTime |-> 0]

NoEndpoints == [k \in {} |-> newEndpoint]

\* the forEach body: the try block, and the catch that skips the call
addCall(endpoints, call) ==
    IF ~urlParses(call) THEN endpoints
    ELSE LET key == endpointKey(call)
             ep == IF key \in DOMAIN endpoints THEN endpoints[key] ELSE newEndpoint
             time == timeOf(call)
             updated == [count |-> ep.count + 1,
                         totalTime |-> ep.totalTime + time,
                         averageTime |-> ep.averageTime,
                         minTime |-> Min(ep.minTime, time),
                         maxTime |-> Max(ep.maxTime, time)]
         IN  [k \in DOMAIN endpoints \cup {key} |->
                 IF k = key THEN updated ELSE endpoints[k]]

\* apiCalls.forEach(call => ...), from the first call to the last
RECURSIVE addCalls(_, _)
addCalls(endpoints, apiCalls) ==
    IF apiCalls = <<>> THEN endpoints
    ELSE addCalls(addCall(endpoints, Head(apiCalls)), Tail(apiCalls))

getApiMetricsCountsParsed(entries) ==
    LET apiCalls == SelectSeq(entries, isApiCall)
        endpoints == addCalls(NoEndpoints, apiCalls)
    IN  IF Len(entries) = 0 \/ Len(apiCalls) = 0
        THEN [totalCalls |-> 0, endpoints |-> NoEndpoints]
        ELSE [totalCalls |-> Len(SelectSeq(apiCalls, urlParses)),
              endpoints |-> [k \in DOMAIN endpoints |->
                               IF endpoints[k].count > 0
                               THEN [endpoints[k] EXCEPT !.averageTime =
                                        Quot(endpoints[k].totalTime, endpoints[k].count)]
                               ELSE endpoints[k]]]

getApiMetrics(entries) ==
    LET apiCalls == SelectSeq(entries, isApiCall)
        endpoints == addCalls(NoEndpoints, apiCalls)
    IN  IF Len(entries) = 0 \/ Len(apiCalls) = 0
        THEN [totalCalls |-> 0, endpoints |-> NoEndpoints]
        ELSE [totalCalls |-> Len(apiCalls),
              endpoints |-> [k \in DOMAIN endpoints |->
                               IF endpoints[k].count > 0
                               THEN [endpoints[k] EXCEPT !.averageTime =
                                        Quot(endpoints[k].totalTime, endpoints[k].count)]
                               ELSE endpoints[k]]]

\* console.warn('Invalid URL in API metrics:', ...), once for each call skipped
apiWarnings(entries) ==
    LET skipped(e) == isApiCall(e) /\ ~urlParses(e)
    IN  [i \in 1..Len(SelectSeq(entries, skipped)) |-> "warn: Invalid URL in API metrics"]

(***************************************************************************)
(* getSlowRequests, getFailedRequests, getLargestRequests.                 *)
(* Array.prototype.sort is stable: entries of equal key keep their order.  *)
(***************************************************************************)
\* the limits generateReport passes
SlowestLimit == 10
LargestLimit == 5

\* s.slice(0, limit)
Slice(s, limit) == SubSeq(s, 1, Min(limit, Len(s)))

\* e.request.method || '', e.response.status || 0
methodOf(e) ==
    IF Has(e, "request") /\ Has(e.request, "method") THEN e.request.method ELSE ""
statusOf(e) ==
    IF Has(e, "response") /\ Has(e.response, "status") THEN e.response.status ELSE 0

\* e inserted behind the entries whose time is not below its own
RECURSIVE InsertByTimeDesc(_, _)
InsertByTimeDesc(s, e) ==
    IF s = <<>> THEN <<e>>
    ELSE IF timeOf(Head(s)) >= timeOf(e)
         THEN <<Head(s)>> \o InsertByTimeDesc(Tail(s), e)
         ELSE <<e>> \o s

\* .sort((a, b) => (b.time || 0) - (a.time || 0))
RECURSIVE SortByTimeDesc(_)
SortByTimeDesc(s) ==
    IF s = <<>> THEN <<>>
    ELSE InsertByTimeDesc(SortByTimeDesc(SubSeq(s, 1, Len(s) - 1)), s[Len(s)])

RECURSIVE InsertBySizeDesc(_, _)
InsertBySizeDesc(s, e) ==
    IF s = <<>> THEN <<e>>
    ELSE IF bodySizeOf(Head(s)) >= bodySizeOf(e)
         THEN <<Head(s)>> \o InsertBySizeDesc(Tail(s), e)
         ELSE <<e>> \o s

\* .sort((a, b) => (b.response?.bodySize || 0) - (a.response?.bodySize || 0))
RECURSIVE SortBySizeDesc(_)
SortBySizeDesc(s) ==
    IF s = <<>> THEN <<>>
    ELSE InsertBySizeDesc(SortBySizeDesc(SubSeq(s, 1, Len(s) - 1)), s[Len(s)])

\* e.request && e.response
hasRequestAndResponse(e) == Has(e, "request") /\ Has(e, "response")

getSlowRequestsUnsorted(entries, limit) ==
    LET slowest == Slice(SelectSeq(entries, hasRequestAndResponse), limit)
    IN  [i \in DOMAIN slowest |->
            [url |-> urlOf(slowest[i]),
             method |-> methodOf(slowest[i]),
             time |-> timeOf(slowest[i]),
             status |-> statusOf(slowest[i])]]

getSlowRequests(entries, limit) ==
    LET slowest == Slice(SortByTimeDesc(SelectSeq(entries, hasRequestAndResponse)), limit)
    IN  [i \in DOMAIN slowest |->
            [url |-> urlOf(slowest[i]),
             method |-> methodOf(slowest[i]),
             time |-> timeOf(slowest[i]),
             status |-> statusOf(slowest[i])]]

\* statusText is a field the entries of the model do not carry: ''
getFailedRequests(entries) ==
    LET failed == SelectSeq(entries, statusFailed)
    IN  [i \in DOMAIN failed |->
            [url |-> urlOf(failed[i]),
             method |-> methodOf(failed[i]),
             status |-> failed[i].response.status,
             statusText |-> "",
             time |-> timeOf(failed[i])]]

\* e.response?.bodySize: a number other than 0
hasBodySize(e) == bodySizeOf(e) # 0

getLargestRequests(entries, limit) ==
    LET largest == Slice(SortBySizeDesc(SelectSeq(entries, hasBodySize)), limit)
    IN  [i \in DOMAIN largest |->
            [url |-> urlOf(largest[i]),
             size |-> bodySizeOf(largest[i]),
             time |-> timeOf(largest[i])]]

(***************************************************************************)
(* checkThresholds(report).  this.thresholds is [defined |-> FALSE] when   *)
(* setThresholds was not called, else [defined |-> TRUE, value |-> t] with *)
(* t the PerformanceThresholds object, each of its bounds optional.        *)
(***************************************************************************)
NoThresholds == [defined |-> FALSE]

\* this.thresholds.maxAverageResponseTime && ...: the bound is a number
\* other than 0
averageBoundInForce(t) ==
    Has(t, "maxAverageResponseTime") /\ t.maxAverageResponseTime # 0

\* this.thresholds.maxFailedRequests !== undefined
failedBoundInForceNonZero(t) ==
    Has(t, "maxFailedRequests") /\ t.maxFailedRequests # 0

failedBoundInForce(t) == Has(t, "maxFailedRequests")

checkThresholds(report, th) ==
    IF ~th.defined THEN <<>>
    ELSE LET t == th.value
             average == report.summary.averageResponseTime
         IN  (IF /\ averageBoundInForce(t)
                 /\ average.num > t.maxAverageResponseTime * average.den
              THEN << [metric |-> "averageResponseTime",
                       threshold |-> t.maxAverageResponseTime,
                       actual |-> average,
                       message |-> "Average response time exceeded threshold"] >>
              ELSE <<>>)
             \o
             (IF /\ failedBoundInForce(t)
                 /\ report.summary.failedRequests > t.maxFailedRequests
              THEN << [metric |-> "failedRequests",
                       threshold |-> t.maxFailedRequests,
                       actual |-> Num(report.summary.failedRequests),
                       message |-> "Failed requests exceeded threshold"] >>
              ELSE <<>>)

(***************************************************************************)
(* this.customMetrics: an object from keys to values.  A value is          *)
(*   [caller |-> s]   the string s a caller passed to addMetric or to the  *)
(*                    constructor (strings of the model are not empty)     *)
(*   [number |-> n]   a number of milliseconds the monitor measured        *)
(*   [boolean |-> b]                                                       *)
(*   [array |-> a]    the array of console errors the monitor keeps        *)
(*   [object |-> o]   the object page.evaluate returned                    *)
(***************************************************************************)
NoMetrics == [k \in {} |-> [boolean |-> FALSE]]

\* object[key] = value
SetKey(object, key, value) ==
    [k \in DOMAIN object \cup {key} |-> IF k = key THEN value ELSE object[k]]

\* addMetric(key, value)
addMetricIfAbsent(metrics, key, value) ==
    IF key \in DOMAIN metrics THEN metrics ELSE SetKey(metrics, key, value)

addMetric(metrics, key, value) == SetKey(metrics, key, value)

\* page.on('console', ...) for a message of type 'error': what the handler
\* leaves in this.customMetrics, and whether it returns or throws.  A string
\* is truthy and has no push: TypeError.
onConsoleError(metrics) ==
    IF "consoleErrors" \notin DOMAIN metrics
    THEN [metrics |-> SetKey(metrics, "consoleErrors", [array |-> <<"error">>]),
          outcome |-> "returns"]
    ELSE IF "array" \in DOMAIN metrics["consoleErrors"]
    THEN [metrics |-> SetKey(metrics, "consoleErrors",
                             [array |-> Append(metrics["consoleErrors"].array, "error")]),
          outcome |-> "returns"]
    ELSE [metrics |-> metrics, outcome |-> "throws"]

\* page.on('crash', ...)
onCrash(metrics) == SetKey(metrics, "pageCrashed", [boolean |-> TRUE])

\* page.on('domcontentloaded', ...) and page.on('load', ...), elapsed being
\* Date.now() - this.startTime; this.startTime is set before any page exists
onDomContentLoaded(metrics, elapsed) ==
    SetKey(metrics, "domContentLoadedTime", [number |-> elapsed])

onLoad(metrics, elapsed) == SetKey(metrics, "pageLoadTime", [number |-> elapsed])

\* measure(name, fn) for the name 'op': the key it passes to addMetric when
\* fn resolves and when fn rejects
timingKey(resolved) == IF resolved THEN "timing_op" ELSE "timing_op_failed"

\* captureBrowserMetrics() with a page: page.evaluate resolves and the
\* result is stored, or it rejects and the catch warns
captureBrowserMetrics(metrics, evaluated) ==
    IF evaluated
    THEN [metrics |-> SetKey(metrics, "browserMetrics", [object |-> "metrics"]), log |-> <<>>]
    ELSE [metrics |-> metrics, log |-> <<"warn: Failed to capture browser metrics">>]

(***************************************************************************)
(* generateReport(outputPath).  The file at this.harPath is                *)
(*   [exists |-> FALSE]                      no file                       *)
(*   [exists |-> TRUE, json |-> FALSE]       text JSON.parse throws on     *)
(*   [exists |-> TRUE, json |-> TRUE, data |-> d]   the parsed document d  *)
(* where d is JSON null, [null |-> TRUE], or an object.                    *)
(***************************************************************************)
Null == [value |-> "null"]

\* an element of log.entries that is JSON null
NullEntry == [null |-> TRUE]
IsNull(e) == Has(e, "null")

\* harData?.log?.entries || []
entriesOf(harData) ==
    IF Has(harData, "log") /\ Has(harData.log, "entries") THEN harData.log.entries ELSE <<>>

\* entries.map(e => e.time || 0) reads a property of null: a TypeError that
\* nothing in generateReport catches
readsPropertyOfNull(entries) == \E i \in DOMAIN entries : IsNull(entries[i])

\* the report object assembled from the entries; customMetrics is
\* this.customMetrics itself, not a copy; thresholdViolations is set only
\* if (this.thresholds)
buildReport(entries, th, metrics) ==
    LET report == [summary |-> calculateSummary(entries),
                   requestTypes |-> categorizeRequests(entries),
                   performance |->
                     [slowestRequests |-> getSlowRequests(entries, SlowestLimit),
                      failedRequests |-> getFailedRequests(entries),
                      largestRequests |-> getLargestRequests(entries, LargestLimit)],
                   apiMetrics |-> getApiMetrics(entries),
                   customMetrics |-> metrics]
    IN  IF th.defined
        THEN [summary |-> report.summary,
              requestTypes |-> report.requestTypes,
              performance |-> report.performance,
              apiMetrics |-> report.apiMetrics,
              customMetrics |-> report.customMetrics,
              thresholdViolations |-> checkThresholds(report, th)]
        ELSE report

\* what a call returns (ret), logs (log) and writes (written)
generateReportNoEmptyCheck(file, th, metrics) ==
    IF ~file.exists
    THEN [ret |-> Null, log |-> <<"error: HAR file not found">>, written |-> <<>>]
    ELSE IF ~file.json
    THEN [ret |-> Null, log |-> <<"error: Failed to parse HAR file">>, written |-> <<>>]
    ELSE LET entries == entriesOf(file.data)
         IN  IF readsPropertyOfNull(entries)
             THEN [ret |-> [value |-> "throws"], log |-> <<>>, written |-> <<>>]
             ELSE LET report == buildReport(entries, th, metrics)
                  IN  [ret |-> [value |-> "report", report |-> report],
                       log |-> apiWarnings(entries),
                       written |-> <<report>>]

generateReportUncaughtParse(file, th, metrics) ==
    IF ~file.exists
    THEN [ret |-> Null, log |-> <<"error: HAR file not found">>, written |-> <<>>]
    ELSE IF ~file.json
    THEN [ret |-> [value |-> "throws"], log |-> <<>>, written |-> <<>>]
    ELSE LET entries == entriesOf(file.data)
         IN  IF Len(entries) = 0
             THEN [ret |-> Null, log |-> <<"warn: No entries found in HAR file">>,
                   written |-> <<>>]
             ELSE IF readsPropertyOfNull(entries)
             THEN [ret |-> [value |-> "throws"], log |-> <<>>, written |-> <<>>]
             ELSE LET report == buildReport(entries, th, metrics)
                  IN  [ret |-> [value |-> "report", report |-> report],
                       log |-> apiWarnings(entries),
                       written |-> <<report>>]

generateReportResult(file, th, metrics) ==
    IF ~file.exists
    THEN [ret |-> Null, log |-> <<"error: HAR file not found">>, written |-> <<>>]
    ELSE IF ~file.json
    THEN [ret |-> Null, log |-> <<"error: Failed to parse HAR file">>, written |-> <<>>]
    ELSE LET entries == entriesOf(file.data)
         IN  IF Len(entries) = 0
             THEN [ret |-> Null, log |-> <<"warn: No entries found in HAR file">>,
                   written |-> <<>>]
             ELSE IF readsPropertyOfNull(entries)
             THEN [ret |-> [value |-> "throws"], log |-> <<>>, written |-> <<>>]
             ELSE LET report == buildReport(entries, th, metrics)
                  IN  [ret |-> [value |-> "report", report |-> report],
                       log |-> apiWarnings(entries),
                       written |-> <<report>>]

(***************************************************************************)
(* The exchanges a browser context can record (HAR 1.2 entries).           *)
(***************************************************************************)
Url(pieces) == <<Origin>> \o pieces

Exchange(time, url, status, bodySize, mimeType) ==
    [time |-> time,
     request |-> [method |-> "GET", url |-> url],
     response |-> [status |-> status, bodySize |-> bodySize,
                   content |-> [mimeType |-> mimeType]]]

PlainUrl == Url(<<"/page">>)
TextPlain == <<"text/", "plain">>

\* entries that differ in time, status and body size, some fields absent
TimingEntries ==
    { Exchange(3, PlainUrl, 200, 2, TextPlain),
      Exchange(1, PlainUrl, 404, 0, TextPlain),
      Exchange(2, PlainUrl, 400, 1, TextPlain),
      Exchange(0, PlainUrl, 399, -1, TextPlain),
      [request |-> [method |-> "GET", url |-> PlainUrl],
       response |-> [status |-> 500, bodySize |-> 4, content |-> [mimeType |-> TextPlain]]],
      [time |-> 2, request |-> [method |-> "GET", url |-> PlainUrl]],
      [time |-> 1, request |-> [method |-> "GET", url |-> PlainUrl],
       response |-> [content |-> [mimeType |-> TextPlain]]] }

\* URLs and MIME types that differ in the categorization rules they satisfy
CategoryUrls ==
    { PlainUrl,
      Url(<<"/app", ".js">>),
      Url(<<"/app", ".js", "?v=1">>),
      Url(<<"/site", ".css">>),
      Url(<<"/site", ".css", "#top">>),
      Url(<<"/logo", ".PNG">>),
      Url(<<"/font", ".woff">>),
      Url(<<"/index", ".html">>),
      Url(<<"/api/", "theme", ".css">>),
      Url(<<"/", "graphql">>),
      Url(<<"/rest/", "items">>) }

CategoryMimeTypes ==
    { <<"application/", "json">>,
      <<"text/", "javascript">>,
      <<"text/", "css">>,
      <<"image", "/png">>,
      <<"font", "/woff2">>,
      <<"text/", "html">>,
      TextPlain }

CategoryEntries ==
    {Exchange(1, u, 200, 1, <<>>) : u \in CategoryUrls}
    \cup {Exchange(2, PlainUrl, 200, 1, m) : m \in CategoryMimeTypes}
    \cup { Exchange(2, Url(<<"/app", ".js">>), 200, 1, <<"application/", "json">>),
           Exchange(2, Url(<<"/app", ".js">>), 200, 1, <<"text/", "css">>),
           Exchange(2, Url(<<"/site", ".css">>), 200, 1, <<"text/", "javascript">>),
           Exchange(2, Url(<<"/site", ".css">>), 200, 1, <<"image", "/png">>),
           Exchange(2, Url(<<"/font", ".woff">>), 200, 1, <<"text/", "html">>),
           [time |-> 1, request |-> [method |-> "GET", url |-> Url(<<"/app", ".js", "?v=1">>)],
            response |-> [status |-> 200, bodySize |-> 1]],
           [time |-> 1, response |-> [status |-> 200, bodySize |-> 1,
                                      content |-> [mimeType |-> <<"text/", "html">>]]] }

\* entries that differ in time and status, for the thresholds
ThresholdEntries ==
    { Exchange(3, PlainUrl, 200, 1, TextPlain),
      Exchange(1, PlainUrl, 404, 1, TextPlain),
      Exchange(0, PlainUrl, 500, 1, TextPlain) }

\* entries that differ in what getApiMetrics reads: the API filter, the
\* method, the path, the query string, whether the URL parses, the time
Call(time, method, url, mimeType) ==
    [time |-> time,
     request |-> [method |-> method, url |-> url],
     response |-> [status |-> 200, bodySize |-> 1, content |-> [mimeType |-> mimeType]]]

ApiEntries ==
    { Call(3, "GET", Url(<<"/api/", "users", "?v=1">>), TextPlain),
      Call(1, "GET", Url(<<"/api/", "users", "?v=2">>), TextPlain),
      Call(1, "POST", Url(<<"/api/", "users">>), TextPlain),
      Call(2, "GET", Url(<<"/SXMain/", "items">>), TextPlain),
      Call(2, "GET", <<"/api/", "users">>, TextPlain),
      [time |-> 2,
       response |-> [status |-> 200, bodySize |-> 1,
                     content |-> [mimeType |-> <<"application/", "json">>]]],
      [request |-> [url |-> Url(<<"/", "graphql", "#top">>)],
       response |-> [status |-> 200, bodySize |-> 1, content |-> [mimeType |-> TextPlain]]],
      Call(3, "GET", PlainUrl, TextPlain) }

(***************************************************************************)
(* The monitor: a browser context records exchanges; closing it writes the *)
(* HAR file; generateReport reads the file.                                *)
(***************************************************************************)
NoFile == [exists |-> FALSE]
Unparsable == [exists |-> TRUE, json |-> FALSE]
HarDocument(d) == [exists |-> TRUE, json |-> TRUE, data |-> d]

\* documents that parse and are not the HAR log the context wrote: no log,
\* no entries, or entries with a null among them
ForeignDocuments ==
    { [null |-> TRUE],
      [version |-> "1.2"],
      [log |-> [version |-> "1.2"]],
      [log |-> [version |-> "1.2", entries |-> <<NullEntry>>]],
      [log |-> [version |-> "1.2",
                entries |-> <<Exchange(3, PlainUrl, 200, 2, TextPlain), NullEntry>>]],
      [log |-> [version |-> "1.2",
                entries |-> <<NullEntry, Exchange(1, PlainUrl, 404, 0, TextPlain),
                              Exchange(3, PlainUrl, 200, 2, TextPlain)>>]] }

\* the PerformanceThresholds objects a caller passes to setThresholds: each
\* bound is absent or a number
NoBound == [b \in {} |-> 0]

ThresholdConfigs ==
    { average @@ failed @@ total @@ request @@ pageLoad :
        average \in {NoBound} \cup {[maxAverageResponseTime |-> t] : t \in 0..2},
        failed \in {NoBound} \cup {[maxFailedRequests |-> k] : k \in 0..1},
        total \in {NoBound, [maxTotalTime |-> 1]},
        request \in {NoBound, [maxRequestTime |-> 1]},
        pageLoad \in {NoBound, [maxPageLoadTime |-> 1]} }

\* no call of calculateMedian / calculatePercentile yet
NoCall == [fn |-> "none", arg |-> <<>>, percentile |-> 0, ret |-> Num(0)]

\* no call of generateReport yet
NotCalled == [har |-> NoFile, thresholds |-> NoThresholds,
              ret |-> [value |-> "none"], log |-> <<>>]

\* no call of aggregateReports yet
NotAggregated == [arg |-> <<>>, ret |-> [value |-> "none"]]

\* no page event handled yet
NoEvent == [name |-> "none", outcome |-> "returns"]

\* runWithMonitoring not called yet
NoRun == [pc |-> "idle", settled |-> [state |-> "pending"], closes |-> 0,
          generated |-> 0, result |-> [value |-> "none"]]

\* the reporter after its field initialisers
EmptyAggregateReport ==
    [tests |-> <<>>,
     summary |-> [totalTests |-> 0, passedTests |-> 0, failedTests |-> 0,
                  performanceIssues |-> <<>>]]

NoTestCall == [title |-> <<>>, files |-> <<>>, found |-> [value |-> "null"]]

NoEndCall == [called |-> FALSE, written |-> FALSE]

InitReporter ==
    /\ reportDir = <<>>
    /\ performanceReports = <<>>
    /\ aggregateReport = EmptyAggregateReport
    /\ testCall = NoTestCall
    /\ endCall = NoEndCall

\* the monitor after its constructor, whatever config.customMetrics was:
\* nothing recorded, this.customMetrics = {}
InitMonitorFields ==
    /\ context = "none"
    /\ recorded = <<>>
    /\ harFile = NoFile
    /\ reportCall = NotCalled
    /\ reportFiles = <<>>
    /\ console = <<>>
    /\ thresholds = NoThresholds
    /\ calls = 0
    /\ customMetrics = NoMetrics
    /\ added = NoMetrics
    /\ pageEvent = NoEvent
    /\ metricOps = 0
    /\ pageCalls = <<>>
    /\ newContexts = 0
    /\ thisContext = 0
    /\ startTimes = 0
    /\ run = NoRun

\* new PerformanceMonitor(config) with no customMetrics in config
InitMonitor ==
    /\ config = NoMetrics
    /\ InitMonitorFields

Init ==
    /\ values = <<>>
    /\ statCall = NoCall
    /\ InitMonitor
    /\ InitReporter
    /\ reports = <<>>
    /\ aggregateCall = NotAggregated

\* the variables of the callers of the order statistics, of aggregateReports
\* and of the reporter
otherVars == <<statVars, aggregateVars, reporterVars>>

\* this.page is set: some call of createPage got its page
HasPage == \E i \in DOMAIN pageCalls : pageCalls[i].pc = "done"

\* the report a call of generateReport returned holds this.customMetrics
\* itself: what is written to this.customMetrics afterwards shows in it
aliased(call, metrics) ==
    IF call.ret.value = "report"
    THEN [call EXCEPT !.ret.report.customMetrics = metrics]
    ELSE call

\* createContext(browser) called by the test itself:
\* this.context = await browser.newContext({recordHar: ...});
\* this.startTime = Date.now()
CreateContext ==
    /\ context = "none"
    /\ pageCalls = <<>>
    /\ context' = "open"
    /\ newContexts' = newContexts + 1
    /\ thisContext' = newContexts + 1
    /\ startTimes' = startTimes + 1
    /\ UNCHANGED <<recorded, harFile, reportCall, reportFiles, console, thresholds, calls>>
    /\ UNCHANGED <<metricVars, pageCalls, run, otherVars>>

\* createPage(browser) up to its first await: if (!this.context) it calls
\* createContext, which calls browser.newContext; else it calls
\* this.context.newPage()
CreatePageStep(max) ==
    /\ Len(pageCalls) < max
    /\ context # "closed"
    /\ IF thisContext = 0
       THEN /\ newContexts' = newContexts + 1
            /\ pageCalls' = Append(pageCalls, [pc |-> "newContext",
                                               context |-> newContexts + 1])
       ELSE /\ newContexts' = newContexts
            /\ pageCalls' = Append(pageCalls, [pc |-> "newPage",
                                               context |-> thisContext])
    /\ UNCHANGED <<context, recorded, harFile, reportCall, reportFiles, console,
                   thresholds, calls, metricVars, thisContext, startTimes>>

CallCreatePage(max) ==
    /\ CreatePageStep(max)
    /\ UNCHANGED <<run, otherVars>>

\* browser.newContext resolves for a call of createPage: createContext
\* assigns this.context and this.startTime, and createPage goes on to
\* this.context.newPage()
ContextCreated ==
    \E i \in DOMAIN pageCalls :
        /\ pageCalls[i].pc = "newContext"
        /\ thisContext' = pageCalls[i].context
        /\ startTimes' = startTimes + 1
        /\ context' = "open"
        /\ pageCalls' = [pageCalls EXCEPT ![i].pc = "newPage"]
        /\ UNCHANGED <<recorded, harFile, reportCall, reportFiles, console,
                       thresholds, calls, metricVars, newContexts, run, otherVars>>

\* newPage resolves: this.page = page; attachPerformanceListeners(page)
PageCreated ==
    \E i \in DOMAIN pageCalls :
        /\ pageCalls[i].pc = "newPage"
        /\ pageCalls' = [pageCalls EXCEPT ![i].pc = "done"]
        /\ UNCHANGED <<context, recorded, harFile, reportCall, reportFiles, console,
                       thresholds, calls, metricVars, newContexts, thisContext,
                       startTimes, run, otherVars>>

\* one more exchange is recorded in the open context
RecordExchange(E, max) ==
    /\ context = "open"
    /\ Len(recorded) < max
    /\ \E e \in E : recorded' = Append(recorded, e)
    /\ UNCHANGED <<context, harFile, reportCall, reportFiles, console, thresholds, calls>>
    /\ UNCHANGED <<metricVars, pageVars, run, otherVars>>

\* close(): captureBrowserMetrics() if there is a page, then
\* this.context.close() writes the recorded exchanges to harPath; the
\* closed context holds them no longer
CloseStep ==
    /\ context = "open"
    /\ context' = "closed"
    /\ harFile' = HarDocument([log |-> [version |-> "1.2", entries |-> recorded]])
    /\ recorded' = <<>>
    /\ IF HasPage
       THEN \E evaluated \in BOOLEAN :
              LET c == captureBrowserMetrics(customMetrics, evaluated)
              IN  /\ customMetrics' = c.metrics
                  /\ console' = console \o c.log
                  /\ reportCall' = aliased(reportCall, c.metrics)
       ELSE UNCHANGED <<customMetrics, console, reportCall>>
    /\ UNCHANGED <<reportFiles, thresholds, calls, config, added, pageEvent,
                   metricOps, pageVars>>

Close ==
    /\ CloseStep
    /\ UNCHANGED <<run, otherVars>>

\* after the context is closed and before the file at harPath is analysed,
\* the file is found cut short, or replaced by another JSON document
ForeignHarFile ==
    /\ context = "closed"
    /\ reportCall = NotCalled
    /\ harFile' \in {Unparsable} \cup {HarDocument(d) : d \in ForeignDocuments}
    /\ harFile' # harFile
    /\ UNCHANGED <<context, recorded, reportCall, reportFiles, console, thresholds, calls>>
    /\ UNCHANGED <<metricVars, pageVars, run, otherVars>>

\* setThresholds(thresholds), which the caller calls once
SetThresholds ==
    /\ ~thresholds.defined
    /\ \E t \in ThresholdConfigs : thresholds' = [defined |-> TRUE, value |-> t]
    /\ UNCHANGED <<context, recorded, harFile, reportCall, reportFiles, console, calls>>
    /\ UNCHANGED <<metricVars, pageVars, run, otherVars>>

GenerateReportStep ==
    /\ calls < MaxCalls
    /\ calls' = calls + 1
    /\ LET r == generateReportResult(harFile, thresholds, customMetrics)
       IN  /\ reportCall' = [har |-> harFile, thresholds |-> thresholds,
                             ret |-> r.ret, log |-> r.log]
           /\ reportFiles' = reportFiles \o r.written
           /\ console' = console \o r.log
    /\ UNCHANGED <<context, recorded, harFile, thresholds, metricVars, pageVars>>

GenerateReport ==
    /\ GenerateReportStep
    /\ UNCHANGED <<run, otherVars>>

Next ==
    \/ CreateContext
    \/ RecordExchange(TimingEntries, MaxEntries)
    \/ Close
    \/ ForeignHarFile
    \/ GenerateReport

Spec == Init /\ [][Next]_vars

NextCategories ==
    \/ CreateContext
    \/ RecordExchange(CategoryEntries, MaxCategoryEntries)
    \/ Close
    \/ ForeignHarFile
    \/ GenerateReport

SpecCategories == Init /\ [][NextCategories]_vars

NextThresholds ==
    \/ CreateContext
    \/ RecordExchange(ThresholdEntries, MaxThresholdEntries)
    \/ Close
    \/ SetThresholds
    \/ GenerateReport

SpecThresholds == Init /\ [][NextThresholds]_vars

NextApi ==
    \/ CreateContext
    \/ RecordExchange(ApiEntries, MaxApiEntries)
    \/ Close
    \/ GenerateReport

SpecApi == Init /\ [][NextApi]_vars

(***************************************************************************)
(* Traces long enough for the limits of the performance lists: a page load *)
(* records a batch of exchanges at once, single exchanges come before it.  *)
(***************************************************************************)
\* entries for the lists: complete ones, one of unknown size, one that has
\* no response
RankingEntries ==
    { Exchange(3, PlainUrl, 200, 2, TextPlain),
      Exchange(1, PlainUrl, 500, -1, TextPlain),
      [time |-> 2, request |-> [method |-> "GET", url |-> PlainUrl]] }

\* the exchanges of one page load: the document and what it refers to
PageLoadTimes == <<2, 4, 1, 3, 0, 4, 1, 3, 2, 1>>

PageLoadBatch ==
    [i \in DOMAIN PageLoadTimes |->
        Exchange(PageLoadTimes[i], Url(<<"/asset", IF i % 2 = 0 THEN ".js" ELSE ".css">>),
                 200, i % 3, TextPlain)]

\* page.goto(...): the page and its resources are recorded
RecordPageLoad ==
    /\ context = "open"
    /\ Len(recorded) <= MaxRankingEntries
    /\ recorded' = recorded \o PageLoadBatch
    /\ UNCHANGED <<context, harFile, reportCall, reportFiles, console, thresholds, calls>>
    /\ UNCHANGED <<metricVars, pageVars, run, otherVars>>

NextRanking ==
    \/ CreateContext
    \/ RecordExchange(RankingEntries, MaxRankingEntries)
    \/ RecordPageLoad
    \/ Close
    \/ GenerateReport

SpecRanking == Init /\ [][NextRanking]_vars

(***************************************************************************)
(* Custom metrics: the test calls addMetric, measure and                   *)
(* captureBrowserMetrics while the page's listeners write to               *)
(* this.customMetrics too.                                                 *)
(***************************************************************************)
\* config.customMetrics as passed to the constructor: absent or one metric
Configs == {NoMetrics, SetKey(NoMetrics, "initial", [caller |-> "v"])}

\* keys the caller may use with addMetric: one of its own and ones that the
\* monitor writes as well
MetricKeys == {"custom", "pageLoadTime", "consoleErrors"}

MetricValues == {[caller |-> "v"], [caller |-> "w"]}

MetricEntries == {Exchange(1, PlainUrl, 200, 1, TextPlain)}

\* the numbers the monitor computes from the clock, whatever they come to:
\* Date.now() - this.startTime in a page listener, Date.now() - start in
\* measure
Elapsed == "Date.now() - this.startTime"
Duration == "Date.now() - start"

InitMetrics ==
    /\ values = <<>>
    /\ statCall = NoCall
    /\ config \in Configs
    /\ InitMonitorFields
    /\ InitReporter
    /\ reports = <<>>
    /\ aggregateCall = NotAggregated

\* what every metric operation leaves alone
MetricFrame ==
    UNCHANGED <<context, recorded, harFile, reportFiles, thresholds, calls,
                config, pageVars, run, otherVars>>

\* addMetric(key, value) called by the test
AddMetric ==
    /\ metricOps < MaxMetricOps
    /\ metricOps' = metricOps + 1
    /\ \E key \in MetricKeys, value \in MetricValues :
           /\ customMetrics' = addMetric(customMetrics, key, value)
           /\ added' = SetKey(added, key, value)
    /\ reportCall' = aliased(reportCall, customMetrics')
    /\ UNCHANGED <<pageEvent, console>>
    /\ MetricFrame

\* measure('op', fn) called by the test: fn resolves or rejects after some
\* time, and the duration is stored with addMetric
Measure ==
    /\ metricOps < MaxMetricOps
    /\ metricOps' = metricOps + 1
    /\ \E resolved \in BOOLEAN :
           customMetrics' = addMetric(customMetrics, timingKey(resolved),
                                      [number |-> Duration])
    /\ reportCall' = aliased(reportCall, customMetrics')
    /\ UNCHANGED <<added, pageEvent, console>>
    /\ MetricFrame

\* the page of the open context logs an error to its console
ConsoleError ==
    /\ HasPage /\ context = "open"
    /\ metricOps < MaxMetricOps
    /\ metricOps' = metricOps + 1
    /\ LET r == onConsoleError(customMetrics)
       IN  /\ customMetrics' = r.metrics
           /\ pageEvent' = [name |-> "console", outcome |-> r.outcome]
    /\ reportCall' = aliased(reportCall, customMetrics')
    /\ UNCHANGED <<added, console>>
    /\ MetricFrame

\* the page crashes
Crash ==
    /\ HasPage /\ context = "open"
    /\ metricOps < MaxMetricOps
    /\ metricOps' = metricOps + 1
    /\ customMetrics' = onCrash(customMetrics)
    /\ pageEvent' = [name |-> "crash", outcome |-> "returns"]
    /\ reportCall' = aliased(reportCall, customMetrics')
    /\ UNCHANGED <<added, console>>
    /\ MetricFrame

\* the page fires domcontentloaded
DomContentLoaded ==
    /\ HasPage /\ context = "open"
    /\ metricOps < MaxMetricOps
    /\ metricOps' = metricOps + 1
    /\ customMetrics' = IF startTimes > 0
                        THEN onDomContentLoaded(customMetrics, Elapsed)
                        ELSE customMetrics
    /\ pageEvent' = [name |-> "domcontentloaded", outcome |-> "returns"]
    /\ reportCall' = aliased(reportCall, customMetrics')
    /\ UNCHANGED <<added, console>>
    /\ MetricFrame

\* the page fires load
Load ==
    /\ HasPage /\ context = "open"
    /\ metricOps < MaxMetricOps
    /\ metricOps' = metricOps + 1
    /\ customMetrics' = IF startTimes > 0
                        THEN onLoad(customMetrics, Elapsed)
                        ELSE customMetrics
    /\ pageEvent' = [name |-> "load", outcome |-> "returns"]
    /\ reportCall' = aliased(reportCall, customMetrics')
    /\ UNCHANGED <<added, console>>
    /\ MetricFrame

\* captureBrowserMetrics() called by the test once there is a page (without
\* a page it returns at once); page.evaluate rejects when the context is
\* closed
CaptureBrowserMetrics ==
    /\ HasPage
    /\ metricOps < MaxMetricOps
    /\ metricOps' = metricOps + 1
    /\ \E evaluated \in (IF context = "open" THEN BOOLEAN ELSE {FALSE}) :
           LET c == captureBrowserMetrics(customMetrics, evaluated)
           IN  /\ customMetrics' = c.metrics
               /\ console' = console \o c.log
    /\ reportCall' = aliased(reportCall, customMetrics')
    /\ UNCHANGED <<added, pageEvent>>
    /\ MetricFrame

NextMetrics ==
    \/ CallCreatePage(1)
    \/ ContextCreated
    \/ PageCreated
    \/ RecordExchange(MetricEntries, MaxMetricEntries)
    \/ Close
    \/ GenerateReport
    \/ AddMetric
    \/ Measure
    \/ ConsoleError
    \/ Crash
    \/ DomContentLoaded
    \/ Load
    \/ CaptureBrowserMetrics

SpecMetrics == InitMetrics /\ [][NextMetrics]_vars

(***************************************************************************)
(* createPage called several times, a later call starting before an        *)
(* earlier one has finished.                                               *)
(***************************************************************************)
NextPages ==
    \/ CallCreatePage(MaxPageCalls)
    \/ ContextCreated
    \/ PageCreated

SpecPages == Init /\ [][NextPages]_vars

(***************************************************************************)
(* PerformanceMonitor.runWithMonitoring(browser, testName, testFn, config, *)
(* thresholds), one call on a monitor of its own.  run.pc is where the     *)
(* call stands:                                                            *)
(*   "idle"        not called yet                                          *)
(*   "constructed" monitor constructed, thresholds set if given            *)
(*   "createPage"  awaiting monitor.createPage(browser)                    *)
(*   "testFn"      awaiting testFn(page, monitor)                          *)
(*   "finally"     testFn settled, awaiting monitor.close()                *)
(*   "generate"    awaiting monitor.generateReport()                       *)
(*   "returned", "rejected"   the promise of the call is settled           *)
(***************************************************************************)
\* the thresholds argument: absent or one bound
RunThresholds ==
    {NoThresholds, [defined |-> TRUE, value |-> [maxFailedRequests |-> 0]]}

\* what testFn's promise settles to
TestFnOutcomes ==
    {[state |-> "resolved", value |-> "value"], [state |-> "rejected", error |-> "error"]}

\* try { result = await testFn(page, monitor) } finally { ... }: where the
\* call goes when testFn settles
runAfterTestFnNoFinally(settled) ==
    IF settled.state = "resolved" THEN "finally" ELSE "rejected"

runAfterTestFn(settled) == "finally"

\* after the finally block: on to generateReport, or the rejection of
\* testFn goes on to the caller
runAfterClose(settled) ==
    IF settled.state = "resolved" THEN "generate" ELSE "rejected"

\* new PerformanceMonitor({...config, testName}); if (thresholds)
\* monitor.setThresholds(thresholds)
RunConstruct ==
    /\ run.pc = "idle"
    /\ run' = [run EXCEPT !.pc = "constructed"]
    /\ thresholds' \in RunThresholds
    /\ UNCHANGED <<context, recorded, harFile, reportCall, reportFiles, console, calls>>
    /\ UNCHANGED <<metricVars, pageVars, otherVars>>

\* monitor.createPage(browser) is called
RunCreatePage ==
    /\ run.pc = "constructed"
    /\ run' = [run EXCEPT !.pc = "createPage"]
    /\ CreatePageStep(1)
    /\ UNCHANGED otherVars

\* createPage resolved: testFn(page, monitor) is called
RunCallTestFn ==
    /\ run.pc = "createPage"
    /\ HasPage
    /\ run' = [run EXCEPT !.pc = "testFn"]
    /\ UNCHANGED <<context, recorded, harFile, reportCall, reportFiles, console,
                   thresholds, calls, metricVars, pageVars, otherVars>>

\* testFn drives the page: an exchange is recorded
RunRecordExchange ==
    /\ run.pc = "testFn"
    /\ RecordExchange(TimingEntries, MaxRunEntries)

\* testFn's promise resolves or rejects
RunTestFnSettles ==
    /\ run.pc = "testFn"
    /\ \E outcome \in TestFnOutcomes :
           run' = [run EXCEPT !.settled = outcome, !.pc = runAfterTestFn(outcome)]
    /\ UNCHANGED <<context, recorded, harFile, reportCall, reportFiles, console,
                   thresholds, calls, metricVars, pageVars, otherVars>>

\* finally { await monitor.close() }
RunClose ==
    /\ run.pc = "finally"
    /\ CloseStep
    /\ run' = [run EXCEPT !.closes = @ + 1,
                          !.pc = runAfterClose(run.settled),
                          !.result = IF run.settled.state = "rejected"
                                     THEN [value |-> "rejected", error |-> run.settled.error]
                                     ELSE @]
    /\ UNCHANGED otherVars

\* return {result, report}: the promise of the call resolves with testFn's
\* value and the report generateReport returned (reportCall.ret)
RunReturn ==
    /\ run.pc = "generate"
    /\ run' = [run EXCEPT !.generated = @ + 1,
                          !.pc = "returned",
                          !.result = [value |-> "returned", result |-> run.settled.value]]

\* const report = await monitor.generateReport(); an exception thrown by
\* generateReport rejects the call
RunGenerateReport ==
    /\ run.pc = "generate"
    /\ GenerateReportStep
    /\ IF reportCall'.ret.value = "throws"
       THEN run' = [run EXCEPT !.generated = @ + 1,
                               !.pc = "rejected",
                               !.result = [value |-> "rejected", error |-> "TypeError"]]
       ELSE RunReturn
    /\ UNCHANGED otherVars

NextRun ==
    \/ RunConstruct
    \/ RunCreatePage
    \/ ContextCreated
    \/ PageCreated
    \/ RunCallTestFn
    \/ RunRecordExchange
    \/ RunTestFnSettles
    \/ RunClose
    \/ RunGenerateReport

\* the continuation after an await runs once the awaited promise has
\* settled: close() and generateReport() are not left waiting
SpecRun ==
    /\ Init
    /\ [][NextRun]_vars
    /\ WF_vars(RunClose)
    /\ WF_run(RunReturn)

(***************************************************************************)
(* The two order statistics on their own: the caller holds an array and    *)
(* calls one of them.                                                      *)
(***************************************************************************)
\* arrays of numbers of length 0..n
RECURSIVE SeqsUpTo(_, _)
SeqsUpTo(S, n) ==
    IF n = 0 THEN {<<>>}
    ELSE LET shorter == SeqsUpTo(S, n - 1)
         IN  shorter \cup {Append(s, x) : s \in {t \in shorter : Len(t) = n - 1}, x \in S}

\* the percentiles asked for: 95 and 99 are the ones calculateSummary asks
Percentiles == {1, 25, 50, 75, 95, 99, 100}

InitStats ==
    /\ values \in SeqsUpTo(0..MaxValue, MaxLen)
    /\ statCall = NoCall
    /\ InitMonitor
    /\ InitReporter
    /\ reports = <<>>
    /\ aggregateCall = NotAggregated

CallMedian ==
    LET r == calculateMedian(values)
    IN  /\ statCall' = [fn |-> "calculateMedian", arg |-> values,
                        percentile |-> 0, ret |-> r.ret]
        /\ values' = r.values
        /\ UNCHANGED <<monitorVars, aggregateVars, reporterVars>>

CallPercentile ==
    \E p \in Percentiles :
        /\ statCall' = [fn |-> "calculatePercentile", arg |-> values,
                        percentile |-> p,
                        ret |-> Num(calculatePercentile(values, p))]
        /\ values' = values
        /\ UNCHANGED <<monitorVars, aggregateVars, reporterVars>>

NextStats == CallMedian \/ CallPercentile

SpecStats == InitStats /\ [][NextStats]_vars

(***************************************************************************)
(* ReportUtils.aggregateReports(reports): the caller collects reports in   *)
(* an array and passes the array.                                          *)
(***************************************************************************)
\* r && r.summary
isValidReport(r) == ~IsNull(r) /\ Has(r, "summary")

\* validReports.reduce((sum, r) => sum + r.summary[field], 0)
sumOfSummariesLast(validReports, field) ==
    IF validReports = <<>> THEN 0
    ELSE validReports[Len(validReports)].summary[field]

RECURSIVE sumOfSummaries(_, _)
sumOfSummaries(validReports, field) ==
    IF validReports = <<>> THEN 0
    ELSE sumOfSummaries(SubSeq(validReports, 1, Len(validReports) - 1), field)
             + validReports[Len(validReports)].summary[field]

\* (x / y * 100).toFixed(2), in hundredths: the nearest, the larger of two
\* equally near
toFixed2OfPercent(x, y) == Floor(2 * 10000 * x + y, 2 * y)

aggregateReportsCountsAll(rs) ==
    LET validReports == SelectSeq(rs, isValidReport)
        totalRequests == sumOfSummaries(validReports, "totalRequests")
        totalTime == sumOfSummaries(validReports, "totalTime")
        totalFailedRequests == sumOfSummaries(validReports, "failedRequests")
    IN  IF Len(validReports) = 0 THEN Null
        ELSE [value |-> "aggregate",
              reportCount |-> Len(rs),
              aggregate |->
                [totalRequests |-> totalRequests,
                 totalTime |-> totalTime,
                 totalFailedRequests |-> totalFailedRequests,
                 averageResponseTime |->
                     IF totalRequests > 0 THEN Quot(totalTime, totalRequests) ELSE Num(0),
                 failureRate |->
                     IF totalRequests > 0
                     THEN [hundredths |-> toFixed2OfPercent(totalFailedRequests, totalRequests)]
                     ELSE [string |-> "0"]],
              individual |->
                [i \in DOMAIN validReports |->
                    [requests |-> validReports[i].summary.totalRequests,
                     avgTime |-> validReports[i].summary.averageResponseTime,
                     failures |-> validReports[i].summary.failedRequests]]]

aggregateReportsAverageOfAverages(rs) ==
    LET validReports == SelectSeq(rs, isValidReport)
        totalRequests == sumOfSummaries(validReports, "totalRequests")
        totalTime == sumOfSummaries(validReports, "totalTime")
        totalFailedRequests == sumOfSummaries(validReports, "failedRequests")
    IN  IF Len(validReports) = 0 THEN Null
        ELSE [value |-> "aggregate",
              reportCount |-> Len(validReports),
              aggregate |->
                [totalRequests |-> totalRequests,
                 totalTime |-> totalTime,
                 totalFailedRequests |-> totalFailedRequests,
                 averageResponseTime |->
                     IF totalRequests > 0
                     THEN Quot(totalTime, Len(validReports) * totalRequests)
                     ELSE Num(0),
                 failureRate |->
                     IF totalRequests > 0
                     THEN [hundredths |-> toFixed2OfPercent(totalFailedRequests, totalRequests)]
                     ELSE [string |-> "0"]],
              individual |->
                [i \in DOMAIN validReports |->
                    [requests |-> validReports[i].summary.totalRequests,
                     avgTime |-> validReports[i].summary.averageResponseTime,
                     failures |-> validReports[i].summary.failedRequests]]]

aggregateReports(rs) ==
    LET validReports == SelectSeq(rs, isValidReport)
        totalRequests == sumOfSummaries(validReports, "totalRequests")
        totalTime == sumOfSummaries(validReports, "totalTime")
        totalFailedRequests == sumOfSummaries(validReports, "failedRequests")
    IN  IF Len(validReports) = 0 THEN Null
        ELSE [value |-> "aggregate",
              reportCount |-> Len(validReports),
              aggregate |->
                [totalRequests |-> totalRequests,
                 totalTime |-> totalTime,
                 totalFailedRequests |-> totalFailedRequests,
                 averageResponseTime |->
                     IF totalRequests > 0 THEN Quot(totalTime, totalRequests) ELSE Num(0),
                 failureRate |->
                     IF totalRequests > 0
                     THEN [hundredths |-> toFixed2OfPercent(totalFailedRequests, totalRequests)]
                     ELSE [string |-> "0"]],
              individual |->
                [i \in DOMAIN validReports |->
                    [requests |-> validReports[i].summary.totalRequests,
                     avgTime |-> validReports[i].summary.averageResponseTime,
                     failures |-> validReports[i].summary.failedRequests]]]

\* what a caller has to aggregate: reports generateReport returned, the null
\* it returned, a report read back without its summary, and a report whose
\* summary is the one calculateSummary gives for no entries
AggregateInputs ==
    { buildReport(<<Exchange(3, PlainUrl, 200, 2, TextPlain)>>, NoThresholds, NoMetrics),
      buildReport(<<Exchange(1, PlainUrl, 404, 0, TextPlain)>>, NoThresholds, NoMetrics),
      buildReport(<<Exchange(1, PlainUrl, 404, 0, TextPlain),
                    Exchange(2, PlainUrl, 400, 1, TextPlain)>>, NoThresholds, NoMetrics),
      buildReport(<<Exchange(3, PlainUrl, 200, 2, TextPlain),
                    Exchange(0, PlainUrl, 399, -1, TextPlain),
                    Exchange(2, PlainUrl, 400, 1, TextPlain)>>, NoThresholds, NoMetrics),
      [summary |-> calculateSummary(<<>>)],
      [requestTypes |-> categorizeRequests(<<>>)],
      NullEntry }

\* the caller adds a report to the array
CollectReport ==
    /\ Len(reports) < MaxReports
    /\ \E r \in AggregateInputs : reports' = Append(reports, r)
    /\ UNCHANGED <<aggregateCall, statVars, monitorVars, reporterVars>>

CallAggregateReports ==
    /\ aggregateCall' = [arg |-> reports, ret |-> aggregateReports(reports)]
    /\ UNCHANGED <<reports, statVars, monitorVars, reporterVars>>

NextAggregate == CollectReport \/ CallAggregateReports

SpecAggregate == Init /\ [][NextAggregate]_vars

(***************************************************************************)
(* PerformanceReporter.  A string is a sequence of pieces: letters and     *)
(* digits, other characters, and fixed parts of a file name.  The files of *)
(* test-results/reports are held oldest first, so a later position is a    *)
(* later mtime.                                                            *)
(***************************************************************************)
\* pieces that are letters or digits
Alphanumeric == {"a", "b", "c"}

\* title.replace(/[^a-zA-Z0-9]/g, '-')
sanitize(title) ==
    [i \in DOMAIN title |-> IF title[i] \in Alphanumeric THEN title[i] ELSE "-"]

\* Date.now() of the n-th file written, as the string a template literal
\* makes of it
TimeStamp(n) == <<"1001", "1002", "1003", "1004">>[n]

\* `report-${testName}-${Date.now()}.json`, the name generateReport gives
\* the report of a monitor whose testName is the sanitized title
reportFileName(testName, now) == <<"report-">> \o testName \o <<"-", now, ".json">>

\* new RegExp(pattern.replace(/\*/g, '.*')).test(name) for the pattern
\* prefix + '*.json': not anchored, so prefix may start anywhere in the
\* name, and '.json' may follow anywhere after it
matches(prefix, name) ==
    \E p \in DOMAIN name :
        /\ p + Len(prefix) - 1 <= Len(name)
        /\ SubSeq(name, p, p + Len(prefix) - 1) = prefix
        /\ \E q \in (p + Len(prefix))..Len(name) : name[q] = ".json"

\* findFiles(pattern): the positions of the files whose name matches
findFiles(prefix, dir) == {i \in DOMAIN dir : matches(prefix, dir[i].name)}

\* files.sort((a, b) => mtime(b) - mtime(a))[0]
mostRecent(files) == CHOOSE i \in files : \A j \in files : j <= i

\* findPerformanceReport(test, result): the first pattern that matches any
\* file gives its most recent file.  The third pattern looks for
\* performance-report.json in a directory named as the suite, which does
\* not exist here.
findPerformanceReport(title, dir) ==
    LET testName == sanitize(title)
        named == findFiles(<<"report-">> \o testName \o <<"-">>, dir)
        any == findFiles(<<"report-">>, dir)
    IN  IF named # {} THEN [value |-> "path", file |-> mostRecent(named)]
        ELSE IF any # {} THEN [value |-> "path", file |-> mostRecent(any)]
        ELSE Null

\* this.performanceReports.set(key, value): a key already in the Map keeps
\* its place and gets the new value
MapSet(map, key, value) ==
    IF \E i \in DOMAIN map : map[i].key = key
    THEN [i \in DOMAIN map |-> IF map[i].key = key
                               THEN [key |-> key, value |-> value] ELSE map[i]]
    ELSE Append(map, [key |-> key, value |-> value])

\* Array.from(this.performanceReports.values())
MapValues(map) == [i \in DOMAIN map |-> map[i].value]

\* the titles of the tests, one with a character that is sanitized
TestTitles == {<<"a">>, <<"b", " ", "c">>}

TestStatuses == {"passed", "failed", "skipped"}

\* the report the monitor of each test generates
ReportOf(title) ==
    IF title = <<"a">>
    THEN buildReport(<<Exchange(3, PlainUrl, 200, 2, TextPlain)>>, NoThresholds, NoMetrics)
    ELSE buildReport(<<Exchange(1, PlainUrl, 404, 0, TextPlain),
                       Exchange(2, PlainUrl, 200, 1, TextPlain)>>,
                     [defined |-> TRUE, value |-> [maxFailedRequests |-> 0]], NoMetrics)

\* the monitor of a test writes its report into test-results/reports
WriteReportFile ==
    /\ Len(reportDir) < MaxReportFiles
    /\ \E title \in TestTitles :
           reportDir' = Append(reportDir,
                               [name |-> reportFileName(sanitize(title),
                                                       TimeStamp(Len(reportDir) + 1)),
                                content |-> ReportOf(title)])
    /\ UNCHANGED <<performanceReports, aggregateReport, testCall, endCall>>
    /\ UNCHANGED <<statVars, monitorVars, aggregateVars>>

\* the entry onTestEnd pushes to aggregateReport.tests (the duration of the
\* test is left out)
testEntry(title, status, report) ==
    [title |-> title,
     status |-> status,
     performance |->
        [totalRequests |-> report.summary.totalRequests,
         averageResponseTime |-> report.summary.averageResponseTime,
         failedRequests |-> report.summary.failedRequests,
         thresholdViolations |-> IF Has(report, "thresholdViolations")
                                 THEN report.thresholdViolations ELSE <<>>]]

\* the counters of aggregateReport.summary after one more test
countTest(summary, status) ==
    [summary EXCEPT !.totalTests = @ + 1,
                    !.passedTests = IF status = "passed" THEN @ + 1 ELSE @,
                    !.failedTests = IF status = "failed" THEN @ + 1 ELSE @]

\* onTestEnd(test, result)
OnTestEnd ==
    /\ ~endCall.called
    /\ aggregateReport.summary.totalTests < MaxTests
    /\ \E title \in TestTitles, status \in TestStatuses :
        LET perfReportPath == findPerformanceReport(title, reportDir)
            counted == countTest(aggregateReport.summary, status)
        IN  /\ testCall' = [title |-> title, files |-> reportDir, found |-> perfReportPath]
            /\ IF perfReportPath.value = "path"
               THEN LET report == reportDir[perfReportPath.file].content
                    IN  /\ performanceReports' = MapSet(performanceReports, title, report)
                        /\ aggregateReport' =
                             [tests |-> Append(aggregateReport.tests,
                                               testEntry(title, status, report)),
                              summary |->
                                 IF Has(report, "thresholdViolations")
                                    /\ Len(report.thresholdViolations) > 0
                                 THEN [counted EXCEPT !.performanceIssues =
                                          Append(@, [test |-> title,
                                                     violations |-> report.thresholdViolations])]
                                 ELSE counted]
               ELSE /\ performanceReports' = performanceReports
                    /\ aggregateReport' = [aggregateReport EXCEPT !.summary = counted]
    /\ UNCHANGED <<reportDir, endCall>>
    /\ UNCHANGED <<statVars, monitorVars, aggregateVars>>

\* onEnd(result): with at least one report, aggregate-report.json is
\* written with aggregateMetrics = ReportUtils.aggregateReports(reports)
OnEnd ==
    /\ ~endCall.called
    /\ LET reportsHeld == MapValues(performanceReports)
       IN  endCall' = IF Len(reportsHeld) > 0
                      THEN [called |-> TRUE, written |-> TRUE,
                            tests |-> aggregateReport.tests,
                            summary |-> aggregateReport.summary,
                            aggregateMetrics |-> aggregateReports(reportsHeld)]
                      ELSE [called |-> TRUE, written |-> FALSE]
    /\ UNCHANGED <<reportDir, performanceReports, aggregateReport, testCall>>
    /\ UNCHANGED <<statVars, monitorVars, aggregateVars>>

NextReporter == WriteReportFile \/ OnTestEnd \/ OnEnd

SpecReporter == Init /\ [][NextReporter]_vars

(***************************************************************************)
(* Order statistics stated by rank, without sorting: v is the k-th         *)
(* smallest of L when fewer than k elements are below v and at least k are *)
(* at most v.                                                              *)
(***************************************************************************)
CountBelow(L, v) == Cardinality({i \in DOMAIN L : L[i] < v})
CountAtMost(L, v) == Cardinality({i \in DOMAIN L : L[i] <= v})
IsKthSmallest(L, k, v) ==
    /\ v \in Range(L)
    /\ CountBelow(L, v) < k
    /\ k <= CountAtMost(L, v)

\* C1: calculateMedian returns 0 for an empty list; for a non-empty list the
\* middle element of the ascending order when the length is odd and the mean
\* of the two middle elements when it is even; the input list is unmodified.
C1_Median ==
    statCall.fn = "calculateMedian" =>
        LET L == statCall.arg
            n == Len(L)
            m == statCall.ret
        IN  /\ values = L
            /\ n = 0 => m = Num(0)
            /\ (n > 0 /\ n % 2 = 1) =>
                   /\ m.den = 1
                   /\ IsKthSmallest(L, (n + 1) \div 2, m.num)
            /\ (n > 0 /\ n % 2 = 0) =>
                   \E a, b \in Range(L) :
                       /\ IsKthSmallest(L, n \div 2, a)
                       /\ IsKthSmallest(L, n \div 2 + 1, b)
                       /\ 2 * m.num = (a + b) * m.den

\* an unsorted even-length list with different middle elements was given
C1_Witness ==
    /\ statCall.fn = "calculateMedian"
    /\ statCall.arg = <<3, 0, 2, 1>>
    /\ statCall.ret = [num |-> 3, den |-> 2]

Reported == reportCall.ret.value = "report"
TheReport == reportCall.ret.report
TheEntries == reportCall.har.data.log.entries

\* the last call read a file that parses and has no entry list or an empty one
ReadEmptyTrace ==
    /\ reportCall.ret.value # "none"
    /\ reportCall.har.exists
    /\ reportCall.har.json
    /\ \/ ~Has(reportCall.har.data, "log")
       \/ ~Has(reportCall.har.data.log, "entries")
       \/ reportCall.har.data.log.entries = <<>>

\* the elapsed time of an entry, 0 when the field is absent
ElapsedOf(e) == IF "time" \in DOMAIN e THEN e.time ELSE 0
ElapsedTimes(E) == [i \in DOMAIN E |-> ElapsedOf(E[i])]

\* sum of g[i] over the indices in I
RECURSIVE SumOver(_, _)
SumOver(I, g) ==
    IF I = {} THEN 0
    ELSE LET i == CHOOSE j \in I : TRUE
         IN  g[i] + SumOver(I \ {i}, g)

\* C3 as stated: in every Report the median, the 95th and the 99th percentile
\* are each the elapsed time of at least one entry.
C3_NoInterpolation ==
    Reported =>
        LET T == Range(ElapsedTimes(TheEntries))
            s == TheReport.summary
        IN  /\ \E t \in T : s.medianResponseTime = Num(t)
            /\ s.percentile95 \in T
            /\ s.percentile99 \in T

\* C3 as amended: percentile95 and percentile99 are each the elapsed time of
\* an entry; medianResponseTime is the middle elapsed time when the number of
\* entries is odd and the mean of the two middle elapsed times when it is
\* even, which need not be the time of any entry; all three are 0 in the
\* summary of an empty list.
C3_MedianMayInterpolate ==
    /\ LET z == calculateSummary(<<>>)
       IN  z.medianResponseTime = Num(0) /\ z.percentile95 = 0 /\ z.percentile99 = 0
    /\ Reported =>
        LET L == ElapsedTimes(TheEntries)
            n == Len(L)
            s == TheReport.summary
            m == s.medianResponseTime
        IN  /\ s.percentile95 \in Range(L)
            /\ s.percentile99 \in Range(L)
            /\ n % 2 = 1 => m.den = 1 /\ IsKthSmallest(L, (n + 1) \div 2, m.num)
            /\ n % 2 = 0 =>
                   \E a, b \in Range(L) :
                       /\ IsKthSmallest(L, n \div 2, a)
                       /\ IsKthSmallest(L, n \div 2 + 1, b)
                       /\ 2 * m.num = (a + b) * m.den

\* a report of two entries whose median is the time of neither
C3_Witness ==
    /\ Reported
    /\ Len(TheEntries) = 2
    /\ TheReport.summary.medianResponseTime = [num |-> 3, den |-> 2]
    /\ \A i \in DOMAIN TheEntries : 2 * ElapsedOf(TheEntries[i]) # 3

\* C4: the counts of the seven categories add up to summary.totalRequests.
C4_CategoryCountsSum ==
    Reported =>
        LET rt == TheReport.requestTypes
        IN  rt["api"].count + rt["javascript"].count + rt["css"].count
              + rt["images"].count + rt["fonts"].count + rt["html"].count
              + rt["other"].count
            = TheReport.summary.totalRequests

\* a report of two entries in two categories, one of them `other`
C4_Witness ==
    /\ Reported
    /\ TheReport.summary.totalRequests = 2
    /\ TheReport.requestTypes["other"].count = 1
    /\ TheReport.requestTypes["images"].count = 1

\* the rules of categorization, each on its own
RuleOrder == <<"api", "javascript", "css", "images", "fonts", "html", "other">>

EndsIn(url, exts) == Len(url) > 0 /\ Lower(url[Len(url)]) \in exts

RuleHolds(c, e) ==
    LET url == IF "request" \in DOMAIN e /\ "url" \in DOMAIN e.request
               THEN e.request.url ELSE <<>>
        hasMime == /\ "response" \in DOMAIN e
                   /\ "content" \in DOMAIN e.response
                   /\ "mimeType" \in DOMAIN e.response.content
        mime == IF hasMime THEN e.response.content.mimeType ELSE <<>>
    IN  CASE c = "api" -> \/ "/api/" \in Range(url) \/ "graphql" \in Range(url)
                          \/ "/rest/" \in Range(url) \/ "json" \in Range(mime)
          [] c = "javascript" -> EndsIn(url, JavascriptExtensions) \/ "javascript" \in Range(mime)
          [] c = "css" -> EndsIn(url, CssExtensions) \/ "css" \in Range(mime)
          [] c = "images" -> EndsIn(url, ImageExtensions) \/ "image" \in Range(mime)
          [] c = "fonts" -> EndsIn(url, FontExtensions) \/ "font" \in Range(mime)
          [] c = "html" -> EndsIn(url, HtmlExtensions) \/ "html" \in Range(mime)
          [] c = "other" -> TRUE

\* the earliest rule of RuleOrder that holds of the entry
FirstRule(e) ==
    LET k == CHOOSE i \in DOMAIN RuleOrder :
                 /\ RuleHolds(RuleOrder[i], e)
                 /\ \A j \in 1..(i - 1) : ~RuleHolds(RuleOrder[j], e)
    IN  RuleOrder[k]

\* C5: each entry is counted under the first rule it satisfies in the order
\* api, javascript, css, images, fonts, html, other, and under no later one.
C5_FirstMatchWins ==
    Reported =>
        \A c \in Categories :
            TheReport.requestTypes[c].count
              = Cardinality({i \in DOMAIN TheEntries : FirstRule(TheEntries[i]) = c})

\* an /api/ URL ending in .css and a .js URL served as json, both counted api
C5_Witness ==
    /\ Reported
    /\ TheEntries = << Exchange(1, Url(<<"/api/", "theme", ".css">>), 200, 1, <<>>),
                       Exchange(2, Url(<<"/app", ".js">>), 200, 1, <<"application/", "json">>) >>
    /\ TheReport.requestTypes["api"].count = 2
    /\ TheReport.requestTypes["css"].count = 0
    /\ TheReport.requestTypes["javascript"].count = 0

\* the path of a URL: the URL without its query string and fragment
IsQueryOrFragment(piece) == piece \in {"?v=1", "?v=2", "#top"}

RECURSIVE PathOf(_)
PathOf(url) ==
    IF url = <<>> \/ IsQueryOrFragment(Head(url)) THEN <<>>
    ELSE <<Head(url)>> \o PathOf(Tail(url))

\* the entry has an empty content type and no api marker, and the path of
\* its URL ends in one of the extensions
ByPathExtension(e, exts) ==
    /\ ~RuleHolds("api", e)
    /\ "request" \in DOMAIN e
    /\ "response" \in DOMAIN e
    /\ "content" \in DOMAIN e.response
    /\ e.response.content.mimeType = <<>>
    /\ EndsIn(PathOf(e.request.url), exts)

\* C6: an entry with empty content type and no api marker whose URL path ends
\* in .js (.css, .png, .woff, .html) is counted javascript (css, images, fonts,
\* html), also when a query string or fragment follows the path.
C6_PathExtension ==
    Reported =>
        LET rt == TheReport.requestTypes
            N(exts) == Cardinality({i \in DOMAIN TheEntries :
                                       ByPathExtension(TheEntries[i], exts)})
        IN  /\ rt["javascript"].count >= N(JavascriptExtensions)
            /\ rt["css"].count >= N(CssExtensions)
            /\ rt["images"].count >= N(ImageExtensions)
            /\ rt["fonts"].count >= N(FontExtensions)
            /\ rt["html"].count >= N(HtmlExtensions)

\* C7: totalRequests is the number of entries, totalTime the sum of the entry
\* times, totalSize the sum of the body sizes, failedRequests the number of
\* entries with status >= 400, averageResponseTime totalTime / totalRequests;
\* an absent time, body size or status counts 0 and is not a failure.
C7_SummaryTotals ==
    Reported =>
        LET E == TheEntries
            s == TheReport.summary
            SizeAt == [i \in DOMAIN E |->
                          IF "response" \in DOMAIN E[i] /\ "bodySize" \in DOMAIN E[i].response
                          THEN E[i].response.bodySize ELSE 0]
            TimeAt == [i \in DOMAIN E |-> ElapsedOf(E[i])]
            FailedAt(i) == /\ "response" \in DOMAIN E[i]
                           /\ "status" \in DOMAIN E[i].response
                           /\ E[i].response.status >= 400
        IN  /\ s.totalRequests = Len(E)
            /\ s.totalTime = SumOver(DOMAIN E, TimeAt)
            /\ s.totalSize = SumOver(DOMAIN E, SizeAt)
            /\ s.failedRequests = Cardinality({i \in DOMAIN E : FailedAt(i)})
            /\ s.averageResponseTime.num * s.totalRequests
                 = s.totalTime * s.averageResponseTime.den

\* a report of three entries: one without a time, one with status 400, one
\* without a response
C7_Witness ==
    /\ Reported
    /\ Len(TheEntries) = 3
    /\ \E i \in DOMAIN TheEntries : "time" \notin DOMAIN TheEntries[i]
    /\ \E i \in DOMAIN TheEntries : "response" \notin DOMAIN TheEntries[i]
    /\ \E i \in DOMAIN TheEntries :
           /\ "response" \in DOMAIN TheEntries[i]
           /\ "status" \in DOMAIN TheEntries[i].response
           /\ TheEntries[i].response.status = 400
    /\ TheReport.summary.failedRequests = 2
    /\ TheReport.summary.averageResponseTime = [num |-> 4, den |-> 3]

\* the reorderings of a list of n entries
Reorderings(n) == {f \in [1..n -> 1..n] : \A i, j \in 1..n : f[i] = f[j] => i = j}
Permuted(E, f) == [i \in DOMAIN E |-> E[f[i]]]

C9_EmptyTraceGivesNull ==
    /\ ReadEmptyTrace => reportCall.ret = Null
    /\ Reported => TheReport.summary.totalRequests >= 1
    /\ \A i \in DOMAIN reportFiles : reportFiles[i].summary.totalRequests >= 1

\* a document without log.entries was analysed: null, nothing written
C9_Witness ==
    /\ reportCall.har = HarDocument([log |-> [version |-> "1.2"]])
    /\ reportCall.ret = Null
    /\ reportFiles = <<>>

ReadTraceWithNull ==
    /\ reportCall.ret.value # "none"
    /\ reportCall.har.exists
    /\ reportCall.har.json
    /\ "log" \in DOMAIN reportCall.har.data
    /\ "entries" \in DOMAIN reportCall.har.data.log
    /\ \E i \in DOMAIN TheEntries : "null" \in DOMAIN TheEntries[i]
    /\ \E i \in DOMAIN TheEntries : "null" \notin DOMAIN TheEntries[i]

\* C11: generateReport on a trace with a null among valid entries returns a
\* report, and the report counts the entries other than the null.
C11_MalformedEntrySkipped ==
    ReadTraceWithNull =>
        /\ Reported
        /\ TheReport.summary.totalRequests
             = Cardinality({i \in DOMAIN TheEntries : "null" \notin DOMAIN TheEntries[i]})

\* the last call returned a report and thresholds were set when it was made
ThresholdsSet == Reported /\ reportCall.thresholds.defined
Configured == reportCall.thresholds.value
Violations == TheReport.thresholdViolations
ViolationsOf(metric) == {i \in DOMAIN Violations : Violations[i].metric = metric}

\* C12: with maxFailedRequests = k configured, k = 0 included, the report has
\* exactly one 'failedRequests' violation, with threshold k and actual
\* summary.failedRequests, when summary.failedRequests > k, and none
\* otherwise, whatever the other bounds are.
C12_FailedRequestsBound ==
    (ThresholdsSet /\ "maxFailedRequests" \in DOMAIN Configured) =>
        LET k == Configured.maxFailedRequests
            v == ViolationsOf("failedRequests")
        IN  IF TheReport.summary.failedRequests > k
            THEN /\ Cardinality(v) = 1
                 /\ \A i \in v :
                        /\ Violations[i].threshold = k
                        /\ Violations[i].actual = Num(TheReport.summary.failedRequests)
            ELSE v = {}

\* maxFailedRequests = 0 and one failed request, while the bound on the
\* average is breached too: one violation for each
C12_Witness ==
    /\ ThresholdsSet
    /\ "maxFailedRequests" \in DOMAIN Configured
    /\ Configured.maxFailedRequests = 0
    /\ "maxAverageResponseTime" \in DOMAIN Configured
    /\ TheReport.summary.failedRequests = 1
    /\ Cardinality(ViolationsOf("failedRequests")) = 1
    /\ Cardinality(ViolationsOf("averageResponseTime")) = 1

\* C13: for every configured maxAverageResponseTime = t, t = 0 included, the
\* report has an 'averageResponseTime' violation if and only if
\* summary.averageResponseTime > t.
C13_AverageBound ==
    (ThresholdsSet /\ "maxAverageResponseTime" \in DOMAIN Configured) =>
        LET t == Configured.maxAverageResponseTime
            average == TheReport.summary.averageResponseTime
        IN  (ViolationsOf("averageResponseTime") # {}) <=> (average.num > t * average.den)

\* C14: when maxTotalTime is configured and summary.totalTime is greater, or
\* maxRequestTime is configured and the time of some entry is greater, the
\* report has a violation for that bound, one that is not a violation of the
\* average or of the failed requests.
C14_OtherBounds ==
    ThresholdsSet =>
        LET others == {i \in DOMAIN Violations :
                          Violations[i].metric \notin {"averageResponseTime", "failedRequests"}}
        IN  /\ ("maxTotalTime" \in DOMAIN Configured
                  /\ TheReport.summary.totalTime > Configured.maxTotalTime) => others # {}
            /\ ("maxRequestTime" \in DOMAIN Configured
                  /\ \E i \in DOMAIN TheEntries :
                         ElapsedOf(TheEntries[i]) > Configured.maxRequestTime) => others # {}

\* a configured bound that the report breaches
AverageBreached ==
    /\ "maxAverageResponseTime" \in DOMAIN Configured
    /\ TheReport.summary.averageResponseTime.num
         > Configured.maxAverageResponseTime * TheReport.summary.averageResponseTime.den
FailedBreached ==
    /\ "maxFailedRequests" \in DOMAIN Configured
    /\ TheReport.summary.failedRequests > Configured.maxFailedRequests
TotalBreached ==
    /\ "maxTotalTime" \in DOMAIN Configured
    /\ TheReport.summary.totalTime > Configured.maxTotalTime
RequestBreached ==
    /\ "maxRequestTime" \in DOMAIN Configured
    /\ \E i \in DOMAIN TheEntries : ElapsedOf(TheEntries[i]) > Configured.maxRequestTime

\* C15: a report has thresholdViolations if and only if thresholds were set
\* before the call; the list is empty exactly when no configured bound is
\* breached; a bound absent from the configuration yields no violation.
C15_ViolationsField ==
    Reported =>
        /\ ("thresholdViolations" \in DOMAIN TheReport) <=> reportCall.thresholds.defined
        /\ reportCall.thresholds.defined =>
             /\ (Violations = <<>>)
                   <=> ~(AverageBreached \/ FailedBreached \/ TotalBreached \/ RequestBreached)
             /\ ViolationsOf("averageResponseTime") # {}
                   => "maxAverageResponseTime" \in DOMAIN Configured
             /\ ViolationsOf("failedRequests") # {}
                   => "maxFailedRequests" \in DOMAIN Configured


(***************************************************************************)
(* Endpoint metrics.                                                       *)
(***************************************************************************)
\* the entry is an API call: a marker in its URL or json in its content type
IsApiEntry(e) ==
    LET url == IF "request" \in DOMAIN e /\ "url" \in DOMAIN e.request
               THEN e.request.url ELSE <<>>
        hasMime == /\ "response" \in DOMAIN e
                   /\ "content" \in DOMAIN e.response
                   /\ "mimeType" \in DOMAIN e.response.content
        mime == IF hasMime THEN e.response.content.mimeType ELSE <<>>
    IN  \/ Range(url) \cap {"/api/", "graphql", "/rest/", "/SXMain/", "/moduleservices/"} # {}
        \/ "json" \in Range(mime)

\* the entry has a URL, and the URL is absolute
HasParseableUrl(e) ==
    /\ "request" \in DOMAIN e
    /\ "url" \in DOMAIN e.request
    /\ Len(e.request.url) > 0
    /\ e.request.url[1] = Origin

ApiIndices == {i \in DOMAIN TheEntries : IsApiEntry(TheEntries[i])}
ParsedIndices == {i \in ApiIndices : HasParseableUrl(TheEntries[i])}

\* the method of an entry, and the path of its URL: what follows the origin,
\* up to the query string or the fragment
MethodOf(e) == IF "method" \in DOMAIN e.request THEN e.request.method ELSE "undefined"
UrlPathOf(e) ==
    LET path == PathOf(Tail(e.request.url))
    IN  IF path = <<>> THEN <<"/">> ELSE path
MethodAndPath(e) == <<MethodOf(e), " ">> \o UrlPathOf(e)

Endpoints == TheReport.apiMetrics.endpoints

\* the entries accumulated into endpoint k
Group(k) == {i \in ParsedIndices : MethodAndPath(TheEntries[i]) = k}

\* C16: every endpoint of apiMetrics.endpoints has count >= 1,
\* minTime <= maxTime <= totalTime, averageTime = totalTime / count, and a
\* minTime that is not the initial Infinity but the time of one of its
\* entries, the least of them.
C16_EndpointInvariant ==
    Reported =>
        \A k \in DOMAIN Endpoints :
            LET ep == Endpoints[k]
            IN  /\ ep.count >= 1
                /\ ep.minTime <= ep.maxTime
                /\ ep.maxTime <= ep.totalTime
                /\ ep.averageTime = Quot(ep.totalTime, ep.count)
                /\ ep.minTime # Infinity
                /\ \E i \in Group(k) : ElapsedOf(TheEntries[i]) = ep.minTime
                /\ \A i \in Group(k) : ep.minTime <= ElapsedOf(TheEntries[i])

\* two calls of GET /api/users, of 3 ms and 1 ms
C16_Witness ==
    /\ Reported
    /\ <<"GET", " ", "/api/", "users">> \in DOMAIN Endpoints
    /\ Endpoints[<<"GET", " ", "/api/", "users">>]
         = [count |-> 2, totalTime |-> 4, averageTime |-> Num(2), minTime |-> 1, maxTime |-> 3]

\* C17: an API entry whose URL does not parse is left out of the endpoint
\* map only: totalCalls is the number of API entries, the endpoint counts
\* sum to the number of API entries whose URL parses, and every entry is
\* counted in summary.totalRequests and in its category.
C17_UnparsableUrlSkipped ==
    Reported =>
        /\ TheReport.apiMetrics.totalCalls = Cardinality(ApiIndices)
        /\ SumOver(DOMAIN Endpoints, [k \in DOMAIN Endpoints |-> Endpoints[k].count])
             = Cardinality(ParsedIndices)
        /\ TheReport.summary.totalRequests = Len(TheEntries)
        /\ \A c \in Categories :
               TheReport.requestTypes[c].count
                 = Cardinality({i \in DOMAIN TheEntries : FirstRule(TheEntries[i]) = c})

\* an API call with a relative URL beside one with an absolute URL: two
\* calls, one endpoint of count 1, one warning
C17_Witness ==
    /\ Reported
    /\ Cardinality(ApiIndices) = 2
    /\ Cardinality(ParsedIndices) = 1
    /\ \E i \in ApiIndices : "request" \in DOMAIN TheEntries[i] /\ ~HasParseableUrl(TheEntries[i])
    /\ TheReport.apiMetrics.totalCalls = 2
    /\ Cardinality(DOMAIN Endpoints) = 1
    /\ reportCall.log = <<"warn: Invalid URL in API metrics">>
    /\ TheReport.requestTypes["api"].count = 2

\* C18: the endpoints are keyed by method and URL path without the query
\* string: the keys are the (method, path) pairs of the API entries whose URL
\* parses, and each endpoint accumulates the entries of its pair.
C18_KeyedByMethodAndPath ==
    Reported =>
        /\ DOMAIN Endpoints = {MethodAndPath(TheEntries[i]) : i \in ParsedIndices}
        /\ \A k \in DOMAIN Endpoints :
               /\ Endpoints[k].count = Cardinality(Group(k))
               /\ Endpoints[k].totalTime
                    = SumOver(Group(k), [i \in Group(k) |-> ElapsedOf(TheEntries[i])])

\* GET /api/users?v=1, GET /api/users?v=2 and POST /api/users: one endpoint
\* for the two GETs, another for the POST
C18_Witness ==
    /\ Reported
    /\ TheEntries = << Call(3, "GET", Url(<<"/api/", "users", "?v=1">>), TextPlain),
                       Call(1, "GET", Url(<<"/api/", "users", "?v=2">>), TextPlain),
                       Call(1, "POST", Url(<<"/api/", "users">>), TextPlain) >>
    /\ DOMAIN Endpoints = { <<"GET", " ", "/api/", "users">>, <<"POST", " ", "/api/", "users">> }
    /\ Endpoints[<<"GET", " ", "/api/", "users">>].count = 2
    /\ Endpoints[<<"POST", " ", "/api/", "users">>].count = 1

(***************************************************************************)
(* Aggregation.                                                            *)
(***************************************************************************)
Aggregated == aggregateCall.ret.value = "aggregate"
TheAggregate == aggregateCall.ret.aggregate

\* the reports of the argument that have a summary
WithSummary(rs) == {i \in DOMAIN rs : "summary" \in DOMAIN rs[i]}

\* C19: the totals of the aggregate are the sums of the summary fields of
\* the reports that have a summary; averageResponseTime is
\* totalTime / totalRequests, or 0 when totalRequests = 0, and failureRate is
\* 0 when totalRequests = 0.
C19_AggregateTotals ==
    Aggregated =>
        LET rs == aggregateCall.arg
            I == WithSummary(rs)
            requests == SumOver(I, [i \in I |-> rs[i].summary.totalRequests])
            time == SumOver(I, [i \in I |-> rs[i].summary.totalTime])
            failed == SumOver(I, [i \in I |-> rs[i].summary.failedRequests])
        IN  /\ TheAggregate.totalRequests = requests
            /\ TheAggregate.totalTime = time
            /\ TheAggregate.totalFailedRequests = failed
            /\ requests > 0 => TheAggregate.averageResponseTime = Quot(time, requests)
            /\ requests = 0 => /\ TheAggregate.averageResponseTime = Num(0)
                               /\ TheAggregate.failureRate = [string |-> "0"]

\* two reports with a summary and one without: 3 requests in 6 ms
C19_Witness ==
    /\ Aggregated
    /\ Len(aggregateCall.arg) = 3
    /\ aggregateCall.ret.reportCount = 2
    /\ TheAggregate.totalRequests = 3
    /\ TheAggregate.totalTime = 6
    /\ TheAggregate.averageResponseTime = Num(2)

\* the count and the totals of an aggregate, all 0 for the null that
\* aggregateReports returns when no report has a summary
TotalsOf(a) ==
    IF a = Null
    THEN [reportCount |-> 0, totalRequests |-> 0, totalTime |-> 0, totalFailedRequests |-> 0]
    ELSE [reportCount |-> a.reportCount,
          totalRequests |-> a.aggregate.totalRequests,
          totalTime |-> a.aggregate.totalTime,
          totalFailedRequests |-> a.aggregate.totalFailedRequests]

\* folding totals y into totals x
Fold(x, y) ==
    [reportCount |-> x.reportCount + y.reportCount,
     totalRequests |-> x.totalRequests + y.totalRequests,
     totalTime |-> x.totalTime + y.totalTime,
     totalFailedRequests |-> x.totalFailedRequests + y.totalFailedRequests]

AverageOf(t) == IF t.totalRequests > 0 THEN Quot(t.totalTime, t.totalRequests) ELSE Num(0)

\* C20: aggregating reports in one call gives the reportCount, the totals
\* and the averageResponseTime that aggregating a first part of them and
\* then folding in the rest gives; so for [A, B, C], [A, B] and C.
C20_Associative ==
    (aggregateCall.ret.value # "none") =>
        \A n \in 0..Len(aggregateCall.arg) :
            LET rs == aggregateCall.arg
                first == aggregateReports(SubSeq(rs, 1, n))
                rest == aggregateReports(SubSeq(rs, n + 1, Len(rs)))
                folded == Fold(TotalsOf(first), TotalsOf(rest))
            IN  /\ TotalsOf(aggregateCall.ret) = folded
                /\ Aggregated => TheAggregate.averageResponseTime = AverageOf(folded)

\* three reports with a summary, aggregated in one call
C20_Witness ==
    /\ Aggregated
    /\ Len(aggregateCall.arg) = 3
    /\ aggregateCall.ret.reportCount = 3
    /\ TheAggregate.totalRequests > 3
    /\ TheAggregate.totalFailedRequests > 0

\* the j-th index of I, counted from the least
NthOf(I, j) == CHOOSE i \in I : Cardinality({k \in I : k <= i}) = j

\* C21: aggregateReports leaves out the inputs that are null or have no
\* summary: reportCount is the number of inputs with a summary, individual
\* holds one rollup for each of them in input order, and the result is null
\* when no input has a summary.
C21_InvalidReportsFiltered ==
    (aggregateCall.ret.value # "none") =>
        LET rs == aggregateCall.arg
            I == WithSummary(rs)
        IN  IF I = {} THEN aggregateCall.ret = Null
            ELSE /\ Aggregated
                 /\ aggregateCall.ret.reportCount = Cardinality(I)
                 /\ Len(aggregateCall.ret.individual) = Cardinality(I)
                 /\ \A j \in 1..Cardinality(I) :
                        LET r == rs[NthOf(I, j)]
                        IN  aggregateCall.ret.individual[j]
                              = [requests |-> r.summary.totalRequests,
                                 avgTime |-> r.summary.averageResponseTime,
                                 failures |-> r.summary.failedRequests]

\* a null, a report of one request and a report without summary: one rollup
C21_Witness ==
    /\ Aggregated
    /\ Len(aggregateCall.arg) = 3
    /\ aggregateCall.arg[1] = NullEntry
    /\ "summary" \in DOMAIN aggregateCall.arg[2]
    /\ "summary" \notin DOMAIN aggregateCall.arg[3]
    /\ aggregateCall.ret.reportCount = 1
    /\ Len(aggregateCall.ret.individual) = 1

(***************************************************************************)
(* Body sizes in the report.                                               *)
(***************************************************************************)
\* a body size the HAR knows: present and not the -1 that stands for unknown
KnownSizeAt ==
    [i \in DOMAIN TheEntries |->
        IF Has(TheEntries[i], "response") /\ Has(TheEntries[i].response, "bodySize")
           /\ TheEntries[i].response.bodySize >= 0
        THEN TheEntries[i].response.bodySize
        ELSE 0]

\* C27: body sizes are non-negative.  For any HAR, entries with bodySize
\* absent or -1 included, summary.totalSize and every
\* requestTypes[c].totalSize are >= 0 and equal the sum of the known sizes,
\* and every item of performance.largestRequests has a size > 0.
C27_SizesNonNegative ==
    Reported =>
        /\ TheReport.summary.totalSize >= 0
        /\ TheReport.summary.totalSize = SumOver(DOMAIN TheEntries, KnownSizeAt)
        /\ \A c \in Categories : TheReport.requestTypes[c].totalSize >= 0
        /\ \A i \in DOMAIN TheReport.performance.largestRequests :
               TheReport.performance.largestRequests[i].size > 0

(***************************************************************************)
(* performance.slowestRequests, stated by rank: of the k slowest of a      *)
(* collection, the number with a time of at least t is the smaller of k    *)
(* and the number in the collection with a time of at least t.             *)
(***************************************************************************)
SlowestRequests == TheReport.performance.slowestRequests

EntryTime(i) == IF Has(TheEntries[i], "time") THEN TheEntries[i].time ELSE 0

\* the entries that have a request and a response
Complete == {i \in DOMAIN TheEntries :
                Has(TheEntries[i], "request") /\ Has(TheEntries[i], "response")}

NonIncreasing ==
    \A i \in 1..(Len(SlowestRequests) - 1) :
        SlowestRequests[i].time >= SlowestRequests[i + 1].time

\* the listed items are the slowest of the entries in I
SlowestOf(I) ==
    /\ Len(SlowestRequests) = Min(10, Cardinality(I))
    /\ \A j \in DOMAIN TheEntries :
           Cardinality({i \in DOMAIN SlowestRequests :
                           SlowestRequests[i].time >= EntryTime(j)})
             = Min(Len(SlowestRequests),
                   Cardinality({i \in I : EntryTime(i) >= EntryTime(j)}))
    /\ \A i \in DOMAIN SlowestRequests :
           \E j \in I :
               /\ SlowestRequests[i].time = EntryTime(j)
               /\ SlowestRequests[i].url = TheEntries[j].request.url
               /\ SlowestRequests[i].method = TheEntries[j].request.method

\* C22 as stated: slowestRequests lists, in non-increasing order of time,
\* the 10 entries of the HAR with the largest time (all when fewer than 10):
\* its length is min(10, number of entries) and no entry outside the list
\* has a larger time than an entry inside it.
C22_SlowestAmongAll ==
    Reported => NonIncreasing /\ SlowestOf(DOMAIN TheEntries)

\* C22 amended: slowestRequests lists, in non-increasing order of time, the
\* 10 slowest of the entries that have both a request and a response (all of
\* them when fewer than 10); an entry without a response is never listed.
C22_SlowestAmongComplete ==
    Reported => NonIncreasing /\ SlowestOf(Complete)

\* a report on more than 10 complete entries and one without a response,
\* in which the slowest entry was not recorded first
C22_Witness ==
    /\ Reported
    /\ Cardinality(Complete) > 10
    /\ Complete # DOMAIN TheEntries
    /\ Len(SlowestRequests) = 10
    /\ EntryTime(1) < SlowestRequests[1].time
    /\ SlowestRequests[10].time < SlowestRequests[1].time

(***************************************************************************)
(* Custom metrics in the report.                                           *)
(***************************************************************************)
\* C23: the metrics passed to the constructor as config.customMetrics appear
\* in Report.customMetrics: every key of config.customMetrics is a key of
\* the report's customMetrics, with the configured value when nothing was
\* written to that key afterwards.
C23_ConfigMetricsReported ==
    Reported =>
        \A k \in DOMAIN config :
            /\ k \in DOMAIN TheReport.customMetrics
            /\ k \notin DOMAIN added => TheReport.customMetrics[k] = config[k]

\* C24: a Report does not change after generateReport returned it: no later
\* operation of the monitor (addMetric, measure, captureBrowserMetrics, a
\* console, crash or load event of the page) changes any of its fields,
\* customMetrics included.
C24_ReportImmutable ==
    [][(reportCall.ret.value = "report" /\ calls' = calls)
          => reportCall'.ret = reportCall.ret]_vars

\* C25: what the caller passes to addMetric passes through untouched: with
\* no later addMetric on the key, Report.customMetrics[k] is the value
\* passed, whatever page events and captureBrowserMetrics calls came in
\* between, and no page event handler fails because of a value the caller
\* stored.
C25_CallerMetricsUntouched ==
    /\ pageEvent.outcome = "returns"
    /\ Reported =>
           \A k \in DOMAIN added :
               /\ k \in DOMAIN TheReport.customMetrics
               /\ TheReport.customMetrics[k] = added[k]

(***************************************************************************)
(* createPage and the browser context.                                     *)
(***************************************************************************)
\* C28: a monitor has at most one browser context: over any interleaving of
\* createPage calls, calls started before an earlier one finished included,
\* browser.newContext is called at most once, every page is created in that
\* one context, and this.startTime is set once.
C28_OneContext ==
    /\ newContexts <= 1
    /\ startTimes <= 1
    /\ \A i, j \in DOMAIN pageCalls :
           (pageCalls[i].pc = "done" /\ pageCalls[j].pc = "done")
               => pageCalls[i].context = pageCalls[j].context

(***************************************************************************)
(* runWithMonitoring.                                                      *)
(***************************************************************************)
TestFnSettled == run.settled.state # "pending"

C26_Order ==
    /\ run.closes <= 1
    /\ run.closes = 1 => TestFnSettled
    /\ run.generated >= 1 => (run.closes = 1 /\ run.settled.state = "resolved")
    /\ run.pc \in {"returned", "rejected"} => run.closes = 1
    /\ (run.pc = "rejected" /\ run.settled.state = "rejected")
           => /\ run.generated = 0
              /\ run.result = [value |-> "rejected", error |-> run.settled.error]
    /\ run.pc = "returned"
           => /\ run.settled.state = "resolved"
              /\ run.result.result = run.settled.value
              /\ run.generated = 1

C29_ReportCountIsTestCount ==
    /\ aggregateReport.summary.passedTests + aggregateReport.summary.failedTests
         <= aggregateReport.summary.totalTests
    /\ Len(aggregateReport.tests) <= aggregateReport.summary.totalTests
    /\ endCall.written => endCall.aggregateMetrics.reportCount = Len(endCall.tests)

\* a file is named for a test when its name is report-<sanitized title>-
\* <time>.json
NamedFor(name, title) ==
    \E n \in 1..Len(reportDir) : name = reportFileName(sanitize(title), TimeStamp(n))

\* C30: onTestEnd attributes to a test only a report generated for that
\* test: when no report file named for the sanitized title exists, the test
\* gets no entry in aggregateReport.tests and no report of another test is
\* recorded under its title.
C30_OnlyOwnReport ==
    /\ (testCall.title # <<>>
        /\ \A i \in DOMAIN testCall.files : ~NamedFor(testCall.files[i].name, testCall.title))
           => testCall.found = Null
    /\ \A i \in DOMAIN aggregateReport.tests :
           aggregateReport.tests[i].performance.totalRequests
             = ReportOf(aggregateReport.tests[i].title).summary.totalRequests
    /\ \A i \in DOMAIN performanceReports :
           performanceReports[i].value = ReportOf(performanceReports[i].key)

=============================================================================
